---- MODULE Spec2Model ----
(***************************************************************************)
(* A model of the software renderer's frame pipeline:                      *)
(*   - the RenderThread mailbox protocol and RenderingContext::Draw's      *)
(*     strip scheduling (specifications Spec and FairSpec).                *)
(***************************************************************************)
EXTENDS Integers, Sequences, FiniteSets, TLC

(***************************************************************************)
(* Bounds of the model.                                                    *)
(***************************************************************************)
MaxThreads == 2
MaxFrames == 2
MaxHeight == 3
MaxWidth == 1
MaxFragments == 3
MaxDepth == 2
MaxFrameWidth == 2
MaxFrameHeight == 3

VARIABLES
    \* ---- RenderingContext::Draw / ~RenderingContext (main thread) ----
    mpc,          \* position of the main thread
    mi,           \* index of the RenderThread the main thread is working on
    nThreads,     \* _renderThreads.size()
    rW, rH,       \* _renderWidth, _renderHeight read by the running Draw
    frames,       \* number of Draw calls that have returned
    posted,       \* tasks accepted by Execute in the running Draw: <<worker, rect>>
    \* ---- RenderThread (one per worker) ----
    wpc,          \* position of the worker thread in Run
    mailbox,      \* _task
    wtask,        \* Run's local 'task'
    busy,         \* _busy
    run,          \* _run
    spn,          \* _spn (TRUE = held)
    doneStamp     \* number of the frame whose task the worker completed last

mainVars == <<mpc, mi, nThreads, rW, rH, frames, posted>>
workerVars == <<wpc, mailbox, wtask, busy, run, spn, doneStamp>>
threadVars == <<mainVars, workerVars>>

VARIABLES
    \* ---- one sample location of the depth and color buffers ----
    sDepth,       \* the depth-buffer element
    sColor,       \* the color (or AA) buffer element
    sFrags,       \* the fragments that reached the sample since the last depth clear
    sValid        \* a depth clear happened and no color-only clear since

depthVars == <<sDepth, sColor, sFrags, sValid>>

VARIABLES
    \* ---- RenderingContext: modes and buffers ----
    cWidth, cHeight,          \* _width, _height
    cRenderW, cRenderH,       \* _renderWidth, _renderHeight
    rasterMode,               \* _rasterizationMode
    aaMode,                   \* _antiAliasingMode
    colorBuf, depthBuf, aaBuf, \* _colorBuffer, _depthBuffer, _aaBuffer
    crashed,                  \* the process was ended by a fault
    cLast                     \* the last call made on the context, and what it did

configVars == <<cWidth, cHeight, cRenderW, cRenderH, rasterMode, aaMode,
                colorBuf, depthBuf, aaBuf, crashed, cLast>>

VARIABLES
    \* ---- one frame: Clear, then Draw's tasks on the worker threads ----
    fThreads,     \* _renderThreads.size() of the context that renders the frame
    fCull,        \* obj->cullMode of the draw calls
    fScene,       \* the clipped screen-space triangles, in draw order
    fTiles,       \* the rectangle the triangles tile, Rect(0, 0, 0, 0) if they do not
    fColor,       \* _colorBuffer.data()
    fDepth,       \* _depthBuffer.data()
    fAA,          \* _aaBuffer.data()
    fMain,        \* position of the main thread in the frame
    fpc,          \* position of each worker in its task
    fWrote,       \* per worker: the buffer elements written, <<buffer, offset>>
    fReadAA,      \* per worker: the offsets of the AA samples read
    fFrags,       \* per render pixel: the fragments the rasterizers generated
    fFault,       \* the process was ended by a fault
    fGarbage      \* what the buffers held when they were allocated

frameVars == <<fThreads, fCull, fScene, fTiles, fColor, fDepth, fAA, fMain, fpc,
               fWrote, fReadAA, fFrags, fFault, fGarbage>>

VARIABLES
    \* ---- one pixel of the depth and output buffers, all its samples ----
    pColor,       \* the pixel's elements of the rasterizer's output buffer
    pDepth,       \* the pixel's elements of the depth buffer
    pCount,       \* the fragments that reached the pixel so far
    pLast         \* the last fragment that reached the pixel, and what it found

pixelVars == <<pColor, pDepth, pCount, pLast>>

VARIABLES
    \* ---- RenderingContext::Draw: one triangle through the clip passes ----
    clIn,         \* the triangle ProcessVertex returned, and the render size
    clVerts,      \* the polygon in the work array, tmp[0 .. nVerts-1]
    clStage,      \* the step of Draw's loop body that runs next
    clLast,       \* the last clip pass: its plane, its input and its crossings
    clOut         \* the vertices appended to _cverts

clipVars == <<clIn, clVerts, clStage, clLast, clOut>>

VARIABLES
    \* ---- Camera::CanSee on the frustum Update left ----
    csFrustum,    \* _frustum[0 .. 5]
    csBounds,     \* the sphere CanSee is called with
    csRet         \* what CanSee returned

canSeeVars == <<csFrustum, csBounds, csRet>>

VARIABLES
    \* ---- Camera and its Transform: parameters and lazily derived values ----
    camera,       \* the Camera's fields
    transform,    \* the fields of camera.transform
    camRet,       \* the last getter call and what it returned
    camCalls      \* number of calls made so far

cameraVars == <<camera, transform, camRet, camCalls>>

VARIABLES
    \* ---- RenderingContext::Draw: the per-frame lists and the shader arena ----
    lpc,          \* position of Draw: "returned", "object", "patch", "run", "clear"
    lObj,         \* the scene object the loop is at
    lScene,       \* scene->objects
    lShaderState, \* the fields of each Shader instance of the scene
    xverts,       \* _xverts: size and capacity
    cverts,       \* _cverts: size and capacity
    drawCalls,    \* _drawCalls: capacity and elements
    shaders,      \* _shaders: allocation, capacity in bytes and elements
    lHeap,        \* number of allocations the arena has made
    lRead,        \* what the workers read through each draw call's shader
    lFrame,       \* number of Draw calls begun
    lBefore       \* the capacities when Draw began, and whether the scene is
                  \* the one of the previous Draw

listVars == <<lpc, lObj, lScene, lShaderState, xverts, cverts, drawCalls, shaders,
              lHeap, lRead, lFrame, lBefore>>

VARIABLES
    \* ---- Texture::Texture: the mip chain ----
    mipSize,      \* _width, _height
    mipCur,       \* w, h of the loop
    mipmaps,      \* _mipmaps
    mipCount,     \* pixelCount
    mipAlloc,     \* number of elements of the allocation behind _pixels
    mipStage      \* "levels", "alloc", "assign", "done"

mipVars == <<mipSize, mipCur, mipmaps, mipCount, mipAlloc, mipStage>>

VARIABLES
    \* ---- RenderBuffer: the offsets of super-sampled render coordinates ----
    ofsBuf,       \* the template argument X and _width, _height of the buffer
    ofsRow,       \* the y and rowOffset of the rasterizer's row loop
    ofsLoop,      \* the x, y and offset of the rasterizer's pixel loop
    ofsFull       \* the last call of GetSuperSampleOffset and what it returned

ofsVars == <<ofsBuf, ofsRow, ofsLoop, ofsFull>>

VARIABLES
    \* ---- one triangle from Draw's perspective divide to its fragments ----
    ipIn,         \* the clip-space w and the attribute of the three vertices
    ipTri,        \* the three vertices as Draw hands them to the rasterizer
    ipStage,      \* "project", "setup", "row", "pixel", "done"
    ipCover,      \* the pixels the edge functions find visible
    ipDelta,      \* xDelta, yDelta
    ipYv,         \* yv
    ipXv,         \* xv
    ipAt,         \* x, y of the loops
    ipFrag        \* the last fragment: its pixel and the Vertex frag

interpVars == <<ipIn, ipTri, ipStage, ipCover, ipDelta, ipYv, ipXv, ipAt, ipFrag>>

VARIABLES
    \* ---- RasterizeHalfSpaceMSAA: one row of pixels under its two loops ----
    mrTri,        \* the triangle: coverage per pixel of the row, depth, color
    mrColor,      \* the row of outBuffer, SAMPLE_COUNT samples per pixel
    mrDepth,      \* the row of _depthBuffer
    mrStage,      \* "idle", "entry" (first loop), "pixels" (second loop)
    mrX,          \* x
    mrPtr,        \* the pixel colorBuffer and depthBuffer point at
    mrShaded,     \* per pixel: the calls of ProcessPixel for the triangle
    mrDiscard,    \* per pixel: the fragment stage reported discard
    mrBefore      \* the two rows when the triangle began

rowVars == <<mrTri, mrColor, mrDepth, mrStage, mrX, mrPtr, mrShaded, mrDiscard,
             mrBefore>>

VARIABLES
    \* ---- a resolve pass on the samples of one output pixel ----
    rsMode,       \* _antiAliasingMode
    rsBlock,      \* one 8-bit channel of the pixel's samples in the AA buffer
    rsOut         \* the channel of the output pixel the pass stored

resolveVars == <<rsMode, rsBlock, rsOut>>

VARIABLES
    \* ---- one texture fetch ----
    tsTex,        \* the size of the texture's level 0
    tsCall,       \* _filterMode, the UV in eighths, the unclamped mip level in quarters
    tsOut         \* the level read, the texels read and their weights in 64ths

sampleVars == <<tsTex, tsCall, tsOut>>

VARIABLES
    \* ---- a client that calls Execute at any time ----
    mlCalls,      \* the calls of Execute made so far
    mlWho,        \* the RenderThread of the last call
    mlRan         \* per worker: the rects of the tasks Run has started, in order

mailVars == <<mlCalls, mlWho, mlRan>>

VARIABLES
    \* ---- Texture::Texture filling the levels through MipDown ----
    mdTmp,        \* tmp: the pixels MipDown works on in place (one channel)
    mdW, mdH,     \* mip.width, mip.height of the level in hand
    mdLevels,     \* the levels copied out so far: width, height, texels
    mdStage,      \* "copy", "down" (inside MipDown) or "done"
    mdPos,        \* inside MipDown: the destination texels stored so far
    mdWritten,    \* inside MipDown: the indices of tmp stored to
    mdStale       \* MipDown has read an index it had stored to

downVars == <<mdTmp, mdW, mdH, mdLevels, mdStage, mdPos, mdWritten, mdStale>>

VARIABLES
    \* ---- AlignedAlloc / AlignedFree ----
    amWord,       \* sizeof(void*)
    amSize,       \* size
    amAlign,      \* alignment
    amMem,        \* the address malloc returns
    amBlock,      \* the bytes asked of malloc (0: not called yet)
    amPtr,        \* the pointer AlignedAlloc returned
    amSlot,       \* where ptr[-1] was stored, and the value stored
    amFreed       \* the address AlignedFree handed to free

allocVars == <<amWord, amSize, amAlign, amMem, amBlock, amPtr, amSlot, amFreed>>

\* The variables of the later specifications.
laterVars == <<pixelVars, clipVars, canSeeVars, cameraVars, listVars, mipVars, ofsVars, interpVars, rowVars, resolveVars, sampleVars, mailVars, downVars, allocVars>>

NoTask == [context |-> FALSE]

\* Rect(x, y, w, h)
Rect(x, y, w, h) == [x |-> x, y |-> y, w |-> w, h |-> h]

\* Task(context, rect)
Task(rect) == [context |-> TRUE, rect |-> rect]

Workers == 0 .. (nThreads - 1)

(***************************************************************************)
(* RenderThread: condition variables, predicates, Execute, Wait, Run.      *)
(***************************************************************************)

\* A Wait whose predicate lost its negation.
Mut_exitBusyWait(w) == busy[w]

\* exitBusyWait = [this]{ return !this->_busy; }
exitBusyWait(w) == ~busy[w]

\* exitTaskWait = [this]{ return !this->_run || this->_task; }
exitTaskWait(w) == ~run[w] \/ mailbox[w].context

\* _task_cv.notify_one(): wakes the worker if it is blocked in _task_cv.wait,
\* and is lost otherwise.
NotifyTask(pcs, w) == IF pcs[w] = "blocked" THEN [pcs EXCEPT ![w] = "relock"] ELSE pcs

\* A Run that clears _busy without notifying _busy_cv.
Mut_NotifyBusy(pc, w) == pc

\* _busy_cv.notify_one(): wakes the main thread if it is blocked in Wait on
\* this worker, and is lost otherwise.
NotifyBusy(pc, w) == IF pc = "waitBlocked" /\ mi = w THEN "wait" ELSE pc

\* An Execute without if(_busy) return.
Mut_Execute(w, rect) ==
    /\ ~spn[w]
    /\ busy' = [busy EXCEPT ![w] = TRUE]
    /\ mailbox' = [mailbox EXCEPT ![w] = Task(rect)]
    /\ wpc' = NotifyTask(wpc, w)
    /\ posted' = Append(posted, <<w, rect>>)
    /\ UNCHANGED <<wtask, run, spn, doneStamp>>

\* RenderThread::Execute, the whole body under lock_guard<spinlock>.
Execute(w, rect) ==
    /\ ~spn[w]
    /\ IF busy[w]
          THEN UNCHANGED <<busy, mailbox, wpc, posted>>
          ELSE /\ busy' = [busy EXCEPT ![w] = TRUE]
               /\ mailbox' = [mailbox EXCEPT ![w] = Task(rect)]
               /\ wpc' = NotifyTask(wpc, w)
               /\ posted' = Append(posted, <<w, rect>>)
    /\ UNCHANGED <<wtask, run, spn, doneStamp>>

\* Draw: int segment = _renderHeight / threadCount;
Segment(H, T) == H \div T

\* A Draw whose last strip does not absorb the remainder.
Mut_LastSeg(H, T) == H \div T

\* Draw: int lastseg = _renderHeight - segment * (threadCount - 1);
LastSeg(H, T) == H - Segment(H, T) * (T - 1)

\* Draw: the rectangle handed to _renderThreads[i]
StripRect(i, T, W, H) ==
    IF i < T - 1 THEN Rect(0, Segment(H, T) * i, W, Segment(H, T))
                 ELSE Rect(0, Segment(H, T) * i, W, LastSeg(H, T))

(***************************************************************************)
(* The main thread: Draw, called any number of times, then the destructor. *)
(***************************************************************************)

\* Draw is entered; it reads the render size the context has at that time.
M_BeginDraw ==
    /\ mpc = "idle"
    /\ frames < MaxFrames
    /\ \E W \in 1 .. MaxWidth, H \in 0 .. MaxHeight : rW' = W /\ rH' = H
    /\ mpc' = "geom"
    /\ UNCHANGED <<mi, nThreads, frames, posted, workerVars>>

\* Draw, the geometry phase: fills _cverts, _drawCalls and _shaders.
M_Geometry ==
    /\ mpc = "geom"
    /\ mpc' = "execute"
    /\ mi' = 0
    /\ UNCHANGED <<nThreads, rW, rH, frames, posted, workerVars>>

\* Draw, one iteration of the two Execute loops.
M_Execute ==
    /\ mpc = "execute"
    /\ Execute(mi, StripRect(mi, nThreads, rW, rH))
    /\ IF mi + 1 < nThreads
          THEN mi' = mi + 1 /\ mpc' = "execute"
          ELSE mi' = 0 /\ mpc' = "wait"
    /\ UNCHANGED <<nThreads, rW, rH, frames>>

\* RenderThread::Wait on _renderThreads[mi]: take the lock and test the
\* predicate; return, or release the lock and block on _busy_cv.
M_Wait ==
    /\ mpc = "wait"
    /\ ~spn[mi]
    /\ IF exitBusyWait(mi)
          THEN IF mi + 1 < nThreads
                  THEN mi' = mi + 1 /\ mpc' = "wait"
                  ELSE mi' = 0 /\ mpc' = "clear"
          ELSE mi' = mi /\ mpc' = "waitBlocked"
    /\ UNCHANGED <<nThreads, rW, rH, frames, posted, workerVars>>

\* A spurious wake-up of _busy_cv.wait: the predicate is tested again.
M_SpuriousWake ==
    /\ mpc = "waitBlocked"
    /\ mpc' = "wait"
    /\ UNCHANGED <<mi, nThreads, rW, rH, frames, posted, workerVars>>

\* Draw, the end of the frame: _drawCalls.clear(); _shaders.clear(); _cverts.clear().
M_Clear ==
    /\ mpc = "clear"
    /\ mpc' = "idle"
    /\ frames' = frames + 1
    /\ posted' = <<>>
    /\ rW' = 0 /\ rH' = 0
    /\ UNCHANGED <<mi, nThreads, workerVars>>

\* ~RenderingContext destroys _renderThreads: ~RenderThread of each in turn.
M_Destroy ==
    /\ mpc = "idle"
    /\ mpc' = "dRun"
    /\ mi' = 0
    /\ UNCHANGED <<nThreads, rW, rH, frames, posted, workerVars>>

\* ~RenderThread: _run = false (no lock is taken).
D_Run ==
    /\ mpc = "dRun"
    /\ run' = [run EXCEPT ![mi] = FALSE]
    /\ mpc' = "dNotify"
    /\ UNCHANGED <<mi, nThreads, rW, rH, frames, posted>>
    /\ UNCHANGED <<wpc, mailbox, wtask, busy, spn, doneStamp>>

\* ~RenderThread: _task_cv.notify_one()
D_Notify ==
    /\ mpc = "dNotify"
    /\ wpc' = NotifyTask(wpc, mi)
    /\ mpc' = "dJoin"
    /\ UNCHANGED <<mi, nThreads, rW, rH, frames, posted>>
    /\ UNCHANGED <<mailbox, wtask, busy, run, spn, doneStamp>>

\* ~RenderThread: _trd.join() returns once Run has returned.
D_Join ==
    /\ mpc = "dJoin"
    /\ wpc[mi] = "exited"
    /\ IF mi + 1 < nThreads
          THEN mi' = mi + 1 /\ mpc' = "dRun"
          ELSE mi' = 0 /\ mpc' = "destroyed"
    /\ UNCHANGED <<nThreads, rW, rH, frames, posted, workerVars>>

(***************************************************************************)
(* RenderThread::Run, one worker.                                          *)
(***************************************************************************)

\* while(_run)
W_While(w) ==
    /\ wpc[w] \in {"start", "loop"}
    /\ wpc' = [wpc EXCEPT ![w] = IF run[w] THEN "lock" ELSE "exited"]
    /\ UNCHANGED <<mailbox, wtask, busy, run, spn, doneStamp, mainVars>>

\* unique_lock<spinlock> lk(_spn); if(!_task) { _busy = false; _busy_cv.notify_one(); ...
W_Lock(w) ==
    /\ wpc[w] = "lock"
    /\ ~spn[w]
    /\ spn' = [spn EXCEPT ![w] = TRUE]
    /\ IF ~mailbox[w].context
          THEN /\ busy' = [busy EXCEPT ![w] = FALSE]
               /\ mpc' = NotifyBusy(mpc, w)
               /\ wpc' = [wpc EXCEPT ![w] = "pred"]
          ELSE /\ UNCHANGED <<busy, mpc>>
               /\ wpc' = [wpc EXCEPT ![w] = "swap"]
    /\ UNCHANGED <<mailbox, wtask, run, doneStamp>>
    /\ UNCHANGED <<mi, nThreads, rW, rH, frames, posted>>

\* _task_cv.wait(lk, exitTaskWait): the predicate is tested with the lock held.
W_Pred(w) ==
    /\ wpc[w] = "pred"
    /\ wpc' = [wpc EXCEPT ![w] = IF exitTaskWait(w) THEN "swap" ELSE "prewait"]
    /\ UNCHANGED <<mailbox, wtask, busy, run, spn, doneStamp, mainVars>>

\* _task_cv.wait(lk): the lock is released and the thread blocks, atomically
\* with respect to notify_one.
W_Block(w) ==
    /\ wpc[w] = "prewait"
    /\ spn' = [spn EXCEPT ![w] = FALSE]
    /\ wpc' = [wpc EXCEPT ![w] = "blocked"]
    /\ UNCHANGED <<mailbox, wtask, busy, run, doneStamp, mainVars>>

\* A spurious wake-up of _task_cv.wait.
W_SpuriousWake(w) ==
    /\ wpc[w] = "blocked"
    /\ wpc' = [wpc EXCEPT ![w] = "relock"]
    /\ UNCHANGED <<mailbox, wtask, busy, run, spn, doneStamp, mainVars>>

\* _task_cv.wait(lk) takes the lock again after a wake-up.
W_Relock(w) ==
    /\ wpc[w] = "relock"
    /\ ~spn[w]
    /\ spn' = [spn EXCEPT ![w] = TRUE]
    /\ wpc' = [wpc EXCEPT ![w] = "pred"]
    /\ UNCHANGED <<mailbox, wtask, busy, run, doneStamp, mainVars>>

\* if(_run) swap(_task, task); the lock is released at the end of the block;
\* if(task) is then tested.
W_Swap(w) ==
    /\ wpc[w] = "swap"
    /\ LET taken == IF run[w] THEN mailbox[w] ELSE NoTask
       IN  /\ wtask' = [wtask EXCEPT ![w] = taken]
           /\ mailbox' = [mailbox EXCEPT ![w] = IF run[w] THEN NoTask ELSE @]
           /\ wpc' = [wpc EXCEPT ![w] = IF taken.context THEN "rasterize" ELSE "loop"]
    /\ spn' = [spn EXCEPT ![w] = FALSE]
    /\ UNCHANGED <<busy, run, doneStamp, mainVars>>

\* for(auto& drawCall : context->_drawCalls) ... context->Rasterize(...)
W_Rasterize(w) ==
    /\ wpc[w] = "rasterize"
    /\ wpc' = [wpc EXCEPT ![w] = "resolve"]
    /\ UNCHANGED <<mailbox, wtask, busy, run, spn, doneStamp, mainVars>>

\* context->Resolve(task.rect); the local task ends with the loop body.
W_Resolve(w) ==
    /\ wpc[w] = "resolve"
    /\ wpc' = [wpc EXCEPT ![w] = "loop"]
    /\ wtask' = [wtask EXCEPT ![w] = NoTask]
    /\ doneStamp' = [doneStamp EXCEPT ![w] = frames + 1]
    /\ UNCHANGED <<mailbox, busy, run, spn, mainVars>>

MainStep ==
    \/ M_BeginDraw \/ M_Geometry \/ M_Execute \/ M_Wait \/ M_Clear
    \/ M_Destroy \/ D_Run \/ D_Notify \/ D_Join

WorkerStep(w) ==
    \/ W_While(w) \/ W_Lock(w) \/ W_Pred(w) \/ W_Block(w) \/ W_Relock(w)
    \/ W_Swap(w) \/ W_Rasterize(w) \/ W_Resolve(w)

\* RenderingContext::RenderingContext: threadCount RenderThreads are made,
\* each starting its thread; no Draw has run.
ThreadInit ==
    /\ nThreads \in 1 .. MaxThreads
    /\ mpc = "idle"
    /\ mi = 0
    /\ rW = 0 /\ rH = 0
    /\ frames = 0
    /\ posted = <<>>
    /\ wpc = [w \in 0 .. (nThreads - 1) |-> "start"]
    /\ mailbox = [w \in 0 .. (nThreads - 1) |-> NoTask]
    /\ wtask = [w \in 0 .. (nThreads - 1) |-> NoTask]
    /\ busy = [w \in 0 .. (nThreads - 1) |-> FALSE]
    /\ run = [w \in 0 .. (nThreads - 1) |-> TRUE]
    /\ spn = [w \in 0 .. (nThreads - 1) |-> FALSE]
    /\ doneStamp = [w \in 0 .. (nThreads - 1) |-> 0]

ThreadNext ==
    \/ MainStep
    \/ M_SpuriousWake
    \/ \E w \in Workers : WorkerStep(w)
    \/ \E w \in Workers : W_SpuriousWake(w)

(***************************************************************************)
(* 32-bit floats as the rasterizer's edge functions use them.  A value is  *)
(* h/8 + j*FLT_EPSILON with integers h and j (|j| small): vertices are     *)
(* whole pixels, sample points are eighths of a pixel, and the only other  *)
(* quantities are the fill-rule offsets FLT_EPSILON and -2*FLT_EPSILON.    *)
(* FLT_EPSILON is 2^-23, one unit in the last place of values in [1, 2).   *)
(***************************************************************************)

Flt(h, j) == [h |-> h, j |-> j]

\* The float of a whole number n.
FltInt(n) == Flt(8 * n, 0)

Abs(n) == IF n < 0 THEN -n ELSE n

Sgn(n) == IF n < 0 THEN -1 ELSE IF n > 0 THEN 1 ELSE 0

\* The largest power of two not above n (n >= 1).
RECURSIVE Pow2Floor(_)
Pow2Floor(n) == IF n < 2 THEN 1 ELSE 2 * Pow2Floor(n \div 2)

\* n rounded to a multiple of q, halves to the even multiple.
RoundEven(n, q) ==
    LET lo == n \div q
        r == n - lo * q
    IN  IF 2 * r < q THEN lo * q
        ELSE IF 2 * r > q THEN (lo + 1) * q
        ELSE IF lo % 2 = 0 THEN lo * q ELSE (lo + 1) * q

\* The spacing of floats around h/8 + jj*FLT_EPSILON (h >= 8; jj the part
\* along the sign of the value), in units of FLT_EPSILON; below 1 the
\* spacing is finer than FLT_EPSILON.
Quantum(a, jj) ==
    LET p == Pow2Floor(a \div 8)
    IN  IF a = 8 * p /\ jj < 0 THEN (IF p = 1 THEN 1 ELSE p \div 2) ELSE p

\* Rounding of the exact value h/8 + j*FLT_EPSILON to the nearest float,
\* ties to even (the result of one float operation).
RoundF(h, j) ==
    IF j = 0 \/ Abs(h) < 8 THEN Flt(h, j)
    ELSE Flt(h, Sgn(h) * RoundEven(Sgn(h) * j, Quantum(Abs(h), Sgn(h) * j)))

\* float + float
FAdd(a, b) == RoundF(a.h + b.h, a.j + b.j)

\* value > 0, value < 0
FPos(a) == a.h > 0 \/ (a.h = 0 /\ a.j > 0)
FNeg(a) == a.h < 0 \/ (a.h = 0 /\ a.j < 0)

(***************************************************************************)
(* The depth test and write of one fragment at one sample location, as the *)
(* three rasterizers perform it, and Clear (specification DepthSpec).      *)
(***************************************************************************)

\* The color Clear writes (_clearColor); fragment colors are 1, 2, ...
ClearColorValue == 0

\* A depth test that lets an equal depth pass.
Mut_DepthTest(w, stored) == w >= stored

\* if(xv.position.w > *depthBuffer)
DepthTest(w, stored) == w > stored

\* Clear(colorBuffer, depthBuffer) seen from one sample location.
S_Clear(cb, db) ==
    /\ sColor' = IF cb THEN ClearColorValue ELSE sColor
    /\ sDepth' = IF db THEN 0 ELSE sDepth
    /\ sFrags' = IF db THEN <<>> ELSE sFrags
    /\ sValid' = IF db THEN TRUE ELSE (sValid /\ ~cb)

\* One fragment of depth w (1/w of the vertex, positive after the depth
\* clip) reaches the sample: depth test, fragment stage, write unless
\* discarded.  Its color is its position in the frame's draw order.
S_Fragment(w, discard) ==
    /\ Len(sFrags) < MaxFragments
    /\ LET c == Len(sFrags) + 1
       IN  IF DepthTest(w, sDepth) /\ ~discard
              THEN sColor' = c /\ sDepth' = w
              ELSE UNCHANGED <<sColor, sDepth>>
    /\ sFrags' = Append(sFrags, [w |-> w, discard |-> discard])
    /\ UNCHANGED sValid

\* RenderBuffer::Resize allocates without initialising: the sample holds
\* whatever the allocation held.
DepthInit ==
    /\ sDepth \in 0 .. MaxDepth
    /\ sColor \in {ClearColorValue, 1}
    /\ sFrags = <<>>
    /\ sValid = FALSE

DepthNext ==
    \/ \E cb, db \in BOOLEAN : S_Clear(cb, db)
    \/ \E w \in 1 .. MaxDepth, discard \in BOOLEAN : S_Fragment(w, discard)

(***************************************************************************)
(* RenderingContext: the mode setters, the buffers they size, and which    *)
(* buffer Clear, the rasterizers and Resolve use (specification ConfigSpec).*)
(***************************************************************************)

RasterModes == {"Scanline", "Halfspace"}
AAModes == {"Off", "MSAA_4X", "SSAA_2X", "SSAA_4X"}

\* RenderBuffer(): no storage, all sizes 0.
EmptyBuffer == [width |-> 0, height |-> 0, sampleCount |-> 0, data |-> "null"]

\* The number of elements of a RenderBuffer.
BufferSize(b) == b.width * b.height * b.sampleCount

\* AlignedAlloc: malloc's result is used unchecked.  When malloc fails,
\* ptr[-1] = mem writes just above address 0: the process faults (crash), or
\* the write goes unnoticed and the bogus pointer is returned.
AlignedAlloc(fail, crash) ==
    IF ~fail THEN "valid" ELSE IF crash THEN "fault" ELSE "invalid"

\* RenderBuffer::Resize.  The result is the buffer after the call, whether
\* an allocation was made, and whether the allocation ended the process (the
\* buffer is then untouched).
Resize(b, width, height, sampleCount, fail, crash) ==
    IF b.width = width /\ b.height = height /\ b.sampleCount = sampleCount
       THEN [buf |-> b, alloc |-> FALSE, fault |-> FALSE]
       ELSE IF width * height * sampleCount > 0
               THEN IF AlignedAlloc(fail, crash) = "fault"
                       THEN [buf |-> b, alloc |-> TRUE, fault |-> TRUE]
                       ELSE [buf |-> [width |-> width, height |-> height,
                                      sampleCount |-> sampleCount,
                                      data |-> AlignedAlloc(fail, crash)],
                             alloc |-> TRUE, fault |-> FALSE]
               ELSE [buf |-> [width |-> width, height |-> height,
                              sampleCount |-> sampleCount, data |-> "null"],
                     alloc |-> FALSE, fault |-> FALSE]

\* antiAliasingMode(mode): the render size and the three Resize calls of the
\* branch taken: <<renderWidth, renderHeight, color, depth, aa>>, each buffer
\* as <<width, height, sampleCount>>.
AAPlan(mode, rm, W, H) ==
    IF mode = "Off" \/ (mode = "MSAA_4X" /\ rm = "Scanline")
       THEN <<W, H, <<W, H, 1>>, <<W, H, 1>>, <<0, 0, 0>>>>
    ELSE IF mode = "SSAA_2X"
       THEN <<W * 2, H * 2, <<W, H, 1>>, <<W, H, 4>>, <<W, H, 4>>>>
    ELSE IF mode = "SSAA_4X"
       THEN <<W * 4, H * 4, <<W, H, 1>>, <<W, H, 16>>, <<W, H, 16>>>>
    ELSE <<W, H, <<W, H, 1>>, <<W, H, 4>>, <<W, H, 4>>>>

\* What a call could change, for comparison with the state before it.
Snapshot ==
    [renderW |-> cRenderW, renderH |-> cRenderH, aa |-> aaMode,
     color |-> colorBuf, depth |-> depthBuf, aaBuffer |-> aaBuf]

\* RenderingContext::rasterizationMode(mode)
C_RasterizationMode(mode) ==
    /\ ~crashed
    /\ rasterMode' = mode
    /\ cLast' = [op |-> "rasterizationMode", failed |-> FALSE, outcome |-> "returned",
                 prior |-> Snapshot]
    /\ UNCHANGED <<cWidth, cHeight, cRenderW, cRenderH, aaMode,
                   colorBuf, depthBuf, aaBuf, crashed>>

\* RenderingContext::antiAliasingMode(mode).  fails names the buffers whose
\* allocation malloc refuses, crash is what the build does on the null write.
C_AntiAliasingMode(mode, fails, crash) ==
    /\ ~crashed
    /\ LET plan == AAPlan(mode, rasterMode, cWidth, cHeight)
           c == Resize(colorBuf, plan[3][1], plan[3][2], plan[3][3], "color" \in fails, crash)
           d == Resize(depthBuf, plan[4][1], plan[4][2], plan[4][3], "depth" \in fails, crash)
           a == Resize(aaBuf, plan[5][1], plan[5][2], plan[5][3], "aa" \in fails, crash)
           cOk == ~c.fault
           dOk == cOk /\ ~d.fault
           aOk == dOk /\ ~a.fault
           failed == \/ ("color" \in fails /\ c.alloc)
                     \/ (cOk /\ "depth" \in fails /\ d.alloc)
                     \/ (dOk /\ "aa" \in fails /\ a.alloc)
       IN  /\ cRenderW' = plan[1]
           /\ cRenderH' = plan[2]
           /\ colorBuf' = c.buf
           /\ depthBuf' = IF cOk THEN d.buf ELSE depthBuf
           /\ aaBuf' = IF dOk THEN a.buf ELSE aaBuf
           /\ aaMode' = IF aOk THEN mode ELSE aaMode
           /\ crashed' = ~aOk
           /\ cLast' = [op |-> "antiAliasingMode", failed |-> failed,
                        outcome |-> IF aOk THEN "returned" ELSE "crashed",
                        prior |-> Snapshot]
    /\ UNCHANGED <<cWidth, cHeight, rasterMode>>

\* Clear: the buffer the clear color goes to.
ClearTarget(aa, rm) ==
    IF aa = "Off" \/ (aa = "MSAA_4X" /\ rm = "Scanline") THEN "color" ELSE "aa"

\* Rasterize: the rasterizer the mode pair selects.
RasterFn(rm, aa) ==
    IF rm = "Scanline" THEN "RasterizeScanline"
    ELSE IF aa = "MSAA_4X" THEN "RasterizeHalfSpaceMSAA" ELSE "RasterizeHalfSpace"

\* A FillSpans that sends MSAA output to the AA buffer.
Mut_FillSpansOut(aa) == IF aa = "Off" THEN "color" ELSE "aa"

\* FillSpans: outBuffer
FillSpansOut(aa) == IF aa = "Off" \/ aa = "MSAA_4X" THEN "color" ELSE "aa"

\* RasterizeHalfSpace, RasterizeHalfSpaceMSAA: outBuffer
HalfSpaceOut(aa) == IF aa = "Off" THEN "color" ELSE "aa"

\* The buffer the selected rasterizer writes colors to.
RasterTarget(rm, aa) == IF rm = "Scanline" THEN FillSpansOut(aa) ELSE HalfSpaceOut(aa)

\* The number of samples per pixel the selected rasterizer addresses.
RasterSamples(rm, aa) ==
    IF aa = "SSAA_2X" THEN 4
    ELSE IF aa = "SSAA_4X" THEN 16
    ELSE IF RasterFn(rm, aa) = "RasterizeHalfSpaceMSAA" THEN 4 ELSE 1

\* Resolve: the pass the mode pair selects.
ResolveFn(aa, rm) ==
    IF aa = "SSAA_2X" THEN "ResolveSSAA2X"
    ELSE IF aa = "SSAA_4X" THEN "ResolveSSAA4X"
    ELSE IF aa = "MSAA_4X" /\ rm = "Halfspace" THEN "ResolveMSAA4X"
    ELSE "none"

\* RenderingContext::Clear(colorBuffer, depthBuffer)
C_Clear(cb, db) ==
    /\ ~crashed
    /\ cLast' = [op |-> "Clear", failed |-> FALSE, outcome |-> "returned",
                 prior |-> Snapshot,
                 target |-> IF cb THEN ClearTarget(aaMode, rasterMode) ELSE "none"]
    /\ UNCHANGED <<cWidth, cHeight, cRenderW, cRenderH, rasterMode, aaMode,
                   colorBuf, depthBuf, aaBuf, crashed>>

\* RenderingContext::Draw of a scene that covers the whole viewport: the
\* rasterizer run, the buffer it writes, the samples per pixel it addresses,
\* the number of elements it needs there and in the depth buffer, and the
\* resolve pass that follows.
C_Draw ==
    /\ ~crashed
    /\ cLast' = [op |-> "Draw", failed |-> FALSE, outcome |-> "returned",
                 prior |-> Snapshot,
                 fn |-> RasterFn(rasterMode, aaMode),
                 target |-> RasterTarget(rasterMode, aaMode),
                 samples |-> RasterSamples(rasterMode, aaMode),
                 needed |-> IF RasterFn(rasterMode, aaMode) = "RasterizeHalfSpaceMSAA"
                               THEN cRenderW * cRenderH * 4
                               ELSE cRenderW * cRenderH,
                 resolve |-> ResolveFn(aaMode, rasterMode)]
    /\ UNCHANGED <<cWidth, cHeight, cRenderW, cRenderH, rasterMode, aaMode,
                   colorBuf, depthBuf, aaBuf, crashed>>

\* RenderingContext::RenderingContext(app, width, height, threadCount)
ConfigInit ==
    /\ cWidth \in 1 .. MaxWidth
    /\ cHeight \in 0 .. MaxHeight
    /\ cRenderW = cWidth
    /\ cRenderH = cHeight
    /\ rasterMode = "Halfspace"
    /\ aaMode = "Off"
    /\ colorBuf = Resize(EmptyBuffer, cWidth, cHeight, 1, FALSE, FALSE).buf
    /\ depthBuf = Resize(EmptyBuffer, cWidth, cHeight, 1, FALSE, FALSE).buf
    /\ aaBuf = EmptyBuffer
    /\ crashed = FALSE
    /\ cLast = [op |-> "RenderingContext", failed |-> FALSE, outcome |-> "returned"]

ConfigNext ==
    \/ \E mode \in RasterModes : C_RasterizationMode(mode)
    \/ \E mode \in AAModes, fails \in SUBSET {"color", "depth", "aa"}, crash \in BOOLEAN :
          C_AntiAliasingMode(mode, fails, crash)
    \/ \E cb, db \in BOOLEAN : C_Clear(cb, db)
    \/ C_Draw

(***************************************************************************)
(* The half-space rasterizer.  Vertices are whole render pixels; a         *)
(* triangle is [p |-> <<p1, p2, p3>>, w |-> 1/w of its vertices, c |-> the  *)
(* color its shader returns]: depth and color are flat over the triangle.  *)
(***************************************************************************)

CullModes == {"None", "Back", "Front"}

Triangle(p1, p2, p3, w, c) == [p |-> <<p1, p2, p3>>, w |-> w, c |-> c]

Min3(a, b, c) == IF a <= b /\ a <= c THEN a ELSE IF b <= c THEN b ELSE c

Max3(a, b, c) == IF a >= b /\ a >= c THEN a ELSE IF b >= c THEN b ELSE c

\* Math::Clamp
Clamp(x, lower, upper) == IF x < lower THEN lower ELSE IF x > upper THEN upper ELSE x

\* The bounding box of the triangle clamped to the viewport only.
Mut_BBox(rect, p) ==
    [minx |-> Clamp(Min3(p[1][1], p[2][1], p[3][1]), 0, cRenderW),
     maxx |-> Clamp(Max3(p[1][1], p[2][1], p[3][1]), 0, cRenderW),
     miny |-> Clamp(Min3(p[1][2], p[2][2], p[3][2]), 0, cRenderH),
     maxy |-> Clamp(Max3(p[1][2], p[2][2], p[3][2]), 0, cRenderH)]

\* The bounding box of the triangle clamped to the rectangle of the task.
BBox(rect, p) ==
    [minx |-> Clamp(Min3(p[1][1], p[2][1], p[3][1]), rect.x, rect.x + rect.w),
     maxx |-> Clamp(Max3(p[1][1], p[2][1], p[3][1]), rect.x, rect.x + rect.w),
     miny |-> Clamp(Min3(p[1][2], p[2][2], p[3][2]), rect.y, rect.y + rect.h),
     maxy |-> Clamp(Max3(p[1][2], p[2][2], p[3][2]), rect.y, rect.y + rect.h)]

\* BarycentricTriangle::empty: the triangle has no area.
TriEmpty(p) ==
    (p[2][1] - p[1][1]) * (p[3][2] - p[1][2])
        - (p[3][1] - p[1][1]) * (p[2][2] - p[1][2]) = 0

\* Vec3 Dx, Dy: the steps of the three edge functions per pixel.
EdgeDx(p) == <<p[2][2] - p[1][2], p[3][2] - p[2][2], p[1][2] - p[3][2]>>
EdgeDy(p) == <<-(p[2][1] - p[1][1]), -(p[3][1] - p[2][1]), -(p[1][1] - p[3][1])>>

\* Vec3 off before off *= -2, in units of FLT_EPSILON: 1 for an edge that
\* goes down, or is level and goes left.
EdgeOff1(a, b) == IF b[2] > a[2] \/ (b[2] = a[2] /\ b[1] < a[1]) THEN 1 ELSE 0

EdgeOff(p) == <<EdgeOff1(p[1], p[2]), EdgeOff1(p[2], p[3]), EdgeOff1(p[3], p[1])>>

\* Vec3 orig after orig += off.
EdgeOrig1(p, i) ==
    FAdd(FltInt(EdgeDx(p)[i] * (-p[i][1]) + EdgeDy(p)[i] * (-p[i][2])),
         Flt(0, EdgeOff(p)[i]))

EdgeOrig(p) == <<EdgeOrig1(p, 1), EdgeOrig1(p, 2), EdgeOrig1(p, 3)>>

\* orig + Dx * x + Dy * y at the point (x8/8, y8/8).
EdgeAt1(p, x8, y8, i) ==
    FAdd(FAdd(EdgeOrig1(p, i), Flt(EdgeDx(p)[i] * x8, 0)), Flt(EdgeDy(p)[i] * y8, 0))

EdgeAt(p, x8, y8) == <<EdgeAt1(p, x8, y8, 1), EdgeAt1(p, x8, y8, 2), EdgeAt1(p, x8, y8, 3)>>

\* Cx += Dx, Cy += Dy
EdgeStep(C, D) ==
    <<FAdd(C[1], FltInt(D[1])), FAdd(C[2], FltInt(D[2])), FAdd(C[3], FltInt(D[3]))>>

\* The edge setup of one triangle: Dx, Dy and off.
Edges(p) == [dx |-> EdgeDx(p), dy |-> EdgeDy(p), off |-> EdgeOff(p)]

\* bool visible: the front-facing test on Cx, the back-facing test on
\* Cx + off with off = -2 * FLT_EPSILON on the offset edges.
Visible(C, e, cull) ==
    \/ cull # "Front" /\ FPos(C[1]) /\ FPos(C[2]) /\ FPos(C[3])
    \/ cull # "Back" /\ FNeg(FAdd(C[1], Flt(0, -2 * e.off[1])))
                     /\ FNeg(FAdd(C[2], Flt(0, -2 * e.off[2])))
                     /\ FNeg(FAdd(C[3], Flt(0, -2 * e.off[3])))

\* One row of RasterizeHalfSpace: the first loop steps to the first visible
\* pixel, the second generates fragments up to the first pixel not visible.
RECURSIVE HalfSpaceRow(_, _, _, _, _, _)
HalfSpaceRow(C, x, maxx, entered, e, cull) ==
    IF x >= maxx THEN {}
    ELSE IF Visible(C, e, cull)
            THEN {x} \cup HalfSpaceRow(EdgeStep(C, e.dx), x + 1, maxx, TRUE, e, cull)
    ELSE IF entered THEN {}
    ELSE HalfSpaceRow(EdgeStep(C, e.dx), x + 1, maxx, FALSE, e, cull)

RECURSIVE HalfSpaceRows(_, _, _, _, _)
HalfSpaceRows(Cy, y, b, e, cull) ==
    IF y >= b.maxy THEN {}
    ELSE {<<x, y>> : x \in HalfSpaceRow(Cy, b.minx, b.maxx, FALSE, e, cull)}
            \cup HalfSpaceRows(EdgeStep(Cy, e.dy), y + 1, b, e, cull)

\* RasterizeHalfSpace: the render pixels <<x, y>> a fragment is generated for.
HalfSpaceFragments(rect, p, cull) ==
    LET b == BBox(rect, p)
    IN  IF b.maxx - b.minx < 1 \/ b.maxy - b.miny < 1 \/ TriEmpty(p) THEN {}
        ELSE HalfSpaceRows(EdgeAt(p, 8 * b.minx + 4, 8 * b.miny + 4), b.miny, b,
                           Edges(p), cull)

(***************************************************************************)
(* RasterizeHalfSpaceMSAA: the same edge functions at four sample points   *)
(* per pixel.                                                              *)
(***************************************************************************)

\* Vec2 sampleOffset[SAMPLE_COUNT], in eighths of a pixel.
SampleOffset8 == <<<<3, -1>>, <<-1, -3>>, <<-3, 1>>, <<1, 3>>>>

RECURSIVE EdgeSteps(_, _, _)
EdgeSteps(C, D, n) == IF n <= 0 THEN C ELSE EdgeSteps(EdgeStep(C, D), D, n - 1)

\* The samples <<x, y, i>> whose coverage bit is set.  Neither loop of a row
\* leaves the row early, so Cx[i] at pixel x is Cy[i] stepped x - minx times.
MSAASamples(rect, p, cull) ==
    LET b == BBox(rect, p)
    IN  IF b.maxx - b.minx < 1 \/ b.maxy - b.miny < 1 \/ TriEmpty(p) THEN {}
        ELSE {s \in (b.minx .. b.maxx - 1) \X (b.miny .. b.maxy - 1) \X (0 .. 3) :
                 Visible(EdgeSteps(EdgeSteps(EdgeAt(p, 8 * b.minx + 4 + SampleOffset8[s[3] + 1][1],
                                                       8 * b.miny + 4 + SampleOffset8[s[3] + 1][2]),
                                             EdgeDy(p), s[2] - b.miny),
                                   EdgeDx(p), s[1] - b.minx),
                         Edges(p), cull)}

(***************************************************************************)
(* The scanline rasterizer.  The x of an edge at a row is a fraction; the  *)
(* frames drawn are restricted to triangles whose edge slopes are dyadic,  *)
(* for which the float arithmetic of FillSpans is exact (ScanExact).       *)
(***************************************************************************)

\* Math::Ceil of n/d (d > 0)
CeilDiv(n, d) == -((-n) \div d)

Min2(a, b) == IF a <= b THEN a ELSE b

Max2(a, b) == IF a >= b THEN a ELSE b

\* float det = a.Det(b) with a = v2 - v1, b = v0 - v1
ScanDet(p) ==
    (p[3][1] - p[2][1]) * (p[1][2] - p[2][2]) - (p[3][2] - p[2][2]) * (p[1][1] - p[2][1])

ScanCulled(p, cull) ==
    \/ cull = "Back" /\ ScanDet(p) > 0
    \/ cull = "Front" /\ ScanDet(p) < 0

\* The three swaps that order v0, v1, v2 by y.
SortByY(p) ==
    LET s1 == IF p[3][2] < p[2][2] THEN <<p[1], p[3], p[2]>> ELSE p
        s2 == IF s1[3][2] < s1[1][2] THEN <<s1[3], s1[2], s1[1]>> ELSE s1
    IN  IF s2[2][2] < s2[1][2] THEN <<s2[2], s2[1], s2[3]>> ELSE s2

\* n/d is a dyadic fraction.
IsDyadic(n, d) == {k \in {1, 2, 4, 8, 16, 32, 64} : (n * k) % d = 0} # {}

\* FillSpans: the render pixels of the spans between the left edge l0-l1 and
\* the right edge r0-r1.  A point is [xn, y] with x = xn / den.
FillSpans(rect, l0, l1, r0, r1, den) ==
    LET dy == l1.y - l0.y
        y0 == l0.y
        y1 == Min3(l1.y, cRenderH, rect.y + rect.h)
        yStart == Min2(rect.y, y1)
        startOff == Max2(yStart - y0, 0)
        left(y) == CeilDiv(l0.xn * dy + (y - y0) * (l1.xn - l0.xn), den * dy)
        right(y) == CeilDiv(r0.xn * dy + (y - y0) * (r1.xn - r0.xn), den * dy)
    IN  UNION {{<<x, y>> : x \in left(y) .. (Min2(right(y), cRenderW) - 1)} :
                  y \in (y0 + startOff) .. (y1 - 1)}

\* The two halves RasterizeScanline hands to FillSpans, as
\* <<l0, l1, r0, r1>>, and the denominator of their x.
ScanHalves(p) ==
    LET s == SortByY(p)
        den == s[3][2] - s[1][2]
        v0 == [xn |-> s[1][1] * den, y |-> s[1][2]]
        v1o == [xn |-> s[2][1] * den, y |-> s[2][2]]
        v2 == [xn |-> s[3][1] * den, y |-> s[3][2]]
        v1bo == [xn |-> s[1][1] * den + (s[3][1] - s[1][1]) * (s[2][2] - s[1][2]),
                 y |-> s[2][2]]
        v1 == IF v1bo.xn < v1o.xn THEN v1bo ELSE v1o
        v1b == IF v1bo.xn < v1o.xn THEN v1o ELSE v1bo
    IN  [den |-> den,
         halves |-> (IF v0.y < v1.y THEN {<<v0, v1, v0, v1b>>} ELSE {})
                        \cup (IF v1.y < v2.y THEN {<<v1, v2, v1b, v2>>} ELSE {})]

\* Every quotient RasterizeScanline and FillSpans form is a dyadic fraction.
ScanExact(p) ==
    TriEmpty(p) \/
        LET s == SortByY(p)
            h == ScanHalves(p)
        IN  /\ IsDyadic(s[2][2] - s[1][2], h.den)
            /\ \A e \in h.halves :
                  /\ IsDyadic(e[2].xn - e[1].xn, h.den * (e[2].y - e[1].y))
                  /\ IsDyadic(e[4].xn - e[3].xn, h.den * (e[2].y - e[1].y))

\* RasterizeScanline: the render pixels <<x, y>> a fragment is generated for.
ScanlineFragments(rect, p, cull) ==
    IF ScanCulled(p, cull) \/ TriEmpty(p) THEN {}
    ELSE UNION {FillSpans(rect, e[1], e[2], e[3], e[4], ScanHalves(p).den) :
                   e \in ScanHalves(p).halves}

(***************************************************************************)
(* One frame on the buffers (specification FrameSpec): Clear, then each    *)
(* worker rasterizes every triangle into its strip and resolves the strip. *)
(* A buffer's storage is a function from offsets 0 .. size-1 to elements;  *)
(* a color is one 8-bit channel (the four channels are treated alike).     *)
(***************************************************************************)

\* What the color buffer holds before anything was written to it.
Garbage == {0, 77}

\* The colors the shaders of the scenes return.
ColorA == 255
ColorB == 100

FWorkers == 0 .. (fThreads - 1)

\* constexpr unsigned RECIPROCAL = (0x10000 + X - 1) / X
Reciprocal(X) == (65536 + X - 1) \div X

\* (v * RECIPROCAL) >> 16 on unsigned: the product is kept modulo 2^32.  With
\* v = vh * 2^16 + vl the bits 16 .. 31 of the product are those of
\* vh * RECIPROCAL + ((vl * RECIPROCAL) >> 16), modulo 2^16.
MulShift16(v, X) ==
    ((v \div 65536) * Reciprocal(X) + ((v % 65536) * Reciprocal(X)) \div 65536) % 65536

\* RenderBuffer::GetSuperSampleRowOffset<X>(y)
GetSuperSampleRowOffset(buf, X, y) ==
    LET yy == MulShift16(y, X)
        yi == y - yy * X
    IN  yy * buf.width * (X * X) + yi * X

\* RenderBuffer::GetSuperSampleColumnOffset<X>(x)
GetSuperSampleColumnOffset(X, x) ==
    LET xx == MulShift16(x, X)
        xi == x - xx * X
    IN  xx * (X * X) + xi

\* RenderBuffer::GetSuperSampleOffset<X>(x, y)
GetSuperSampleOffset(buf, X, x, y) ==
    LET xx == MulShift16(x, X)
        xi == x - xx * X
        yy == MulShift16(y, X)
        yi == y - yy * X
    IN  (yy * buf.width + xx) * (X * X) + (yi * X + xi)

\* The buffer descriptor behind outBuffer.
OutBuffer(target) == IF target = "color" THEN colorBuf ELSE aaBuf

\* RasterizeHalfSpace, FillSpans: uint32_t offset of render pixel <<x, y>>.
PixelOffset(target, x, y) ==
    IF aaMode = "SSAA_2X"
       THEN GetSuperSampleRowOffset(OutBuffer(target), 2, y) + GetSuperSampleColumnOffset(2, x)
    ELSE IF aaMode = "SSAA_4X"
       THEN GetSuperSampleRowOffset(OutBuffer(target), 4, y) + GetSuperSampleColumnOffset(4, x)
    ELSE y * cWidth + x

\* RasterizeHalfSpaceMSAA: offset of sample i of render pixel <<x, y>>.
MSAAOffset(x, y, i) == (y * cRenderW + x) * 4 + i

\* Rasterize(rect, v0, v1, v2, drawCall): the render pixels a fragment is
\* generated for, and the offsets it is depth-tested and written at.
Rasterize(rect, tri) ==
    LET fn == RasterFn(rasterMode, aaMode)
        target == RasterTarget(rasterMode, aaMode)
    IN  IF fn = "RasterizeHalfSpaceMSAA"
           THEN LET ss == MSAASamples(rect, tri.p, fCull)
                IN  [pixels |-> {<<s[1], s[2]>> : s \in ss},
                     offsets |-> {MSAAOffset(s[1], s[2], s[3]) : s \in ss}]
           ELSE LET px == IF fn = "RasterizeScanline"
                             THEN ScanlineFragments(rect, tri.p, fCull)
                             ELSE HalfSpaceFragments(rect, tri.p, fCull)
                IN  [pixels |-> px,
                     offsets |-> {PixelOffset(target, q[1], q[2]) : q \in px}]

\* The buffer Rasterize writes colors to.
OutStorage(bufs) == IF RasterTarget(rasterMode, aaMode) = "color" THEN bufs.color ELSE bufs.aa

\* The offsets of a fragment that lie inside the depth and the output buffer.
InsideOffsets(bufs, offsets) ==
    {o \in offsets : o \in DOMAIN bufs.depth /\ o \in DOMAIN OutStorage(bufs)}

\* The buffers after the fragments at the offsets hits have been stored.
StoreFragments(bufs, tri, r, inside, hits) ==
    [color |-> IF RasterTarget(rasterMode, aaMode) = "color"
                  THEN [o \in DOMAIN bufs.color |-> IF o \in hits THEN tri.c ELSE bufs.color[o]]
                  ELSE bufs.color,
     aa |-> IF RasterTarget(rasterMode, aaMode) = "aa"
               THEN [o \in DOMAIN bufs.aa |-> IF o \in hits THEN tri.c ELSE bufs.aa[o]]
               ELSE bufs.aa,
     depth |-> [o \in DOMAIN bufs.depth |-> IF o \in hits THEN tri.w ELSE bufs.depth[o]],
     pixels |-> r.pixels,
     wrote |-> {<<t, o>> : t \in {RasterTarget(rasterMode, aaMode), "depth"}, o \in hits},
     oob |-> inside # r.offsets]

\* The depth test of the fragments at the offsets inside.
TestFragments(bufs, tri, r, inside) ==
    StoreFragments(bufs, tri, r, inside, {o \in inside : DepthTest(tri.w, bufs.depth[o])})

\* The buffers after Rasterize: at each offset whose depth test passes the
\* color goes to the rasterizer's output buffer and the depth to the depth
\* buffer.  oob: an offset lies outside a buffer.
RasterizeFragments(bufs, tri, r) ==
    TestFragments(bufs, tri, r, InsideOffsets(bufs, r.offsets))

RasterizeInto(bufs, rect, tri) == RasterizeFragments(bufs, tri, Rasterize(rect, tri))

\* _mm_avg_epu8 on one channel
Avg(a, b) == (a + b + 1) \div 2

\* The element a resolve pass stores for the samples at src .. src+n-1.
Resolved(aa, src, n) ==
    IF n = 4 THEN Avg(Avg(aa[src], aa[src + 1]), Avg(aa[src + 2], aa[src + 3]))
    ELSE (aa[src] + aa[src + 1] + aa[src + 2] + aa[src + 3]
          + aa[src + 4] + aa[src + 5] + aa[src + 6] + aa[src + 7]
          + aa[src + 8] + aa[src + 9] + aa[src + 10] + aa[src + 11]
          + aa[src + 12] + aa[src + 13] + aa[src + 14] + aa[src + 15]) \div 16

\* ResolveSSAA2X, ResolveSSAA4X, ResolveMSAA4X: where the pass reads and
\* writes.  src and dst are element offsets, n is the number of samples
\* averaged into one element, count the number of elements written.
ResolvePlan(rect) ==
    LET fn == ResolveFn(aaMode, rasterMode)
    IN  IF fn = "ResolveSSAA2X"
           THEN [src |-> rect.y * rect.w, dst |-> (rect.y \div 2) * (rect.w \div 2),
                 n |-> 4, count |-> (rect.w \div 2) * (rect.h \div 2)]
        ELSE IF fn = "ResolveSSAA4X"
           THEN [src |-> rect.y * rect.w, dst |-> (rect.y \div 4) * (rect.w \div 4),
                 n |-> 16, count |-> (rect.w \div 4) * (rect.h \div 4)]
        ELSE IF fn = "ResolveMSAA4X"
           THEN [src |-> rect.y * rect.w * 4, dst |-> rect.y * rect.w,
                 n |-> 4, count |-> rect.w * rect.h]
        ELSE [src |-> 0, dst |-> 0, n |-> 4, count |-> 0]

\* _mm_load_si128 needs its address on a 16-byte boundary: four elements.
\* The storage itself is aligned by AlignedAlloc(count, 16).
Misaligned(rect) == ResolvePlan(rect).count > 0 /\ ResolvePlan(rect).src % 4 # 0

\* The AA samples the pass reads and the color elements it writes.
ResolveReads(rect) ==
    LET pl == ResolvePlan(rect)
    IN  {pl.src + k : k \in 0 .. (pl.count * pl.n - 1)}

ResolveWrites(rect) ==
    LET pl == ResolvePlan(rect)
    IN  {pl.dst + k : k \in 0 .. (pl.count - 1)}

\* The color buffer after Resolve(rect).
ResolveInto(bufs, rect) ==
    LET pl == ResolvePlan(rect)
    IN  [o \in DOMAIN bufs.color |->
            IF o \in ResolveWrites(rect) /\ ResolveReads(rect) \subseteq DOMAIN bufs.aa
               THEN Resolved(bufs.aa, pl.src + (o - pl.dst) * pl.n, pl.n)
               ELSE bufs.color[o]]

\* The frames drawn: two triangles that tile the viewport, seen from the
\* front; two that tile the largest square in its corner, seen from the back;
\* a far triangle and a nearer one that overlaps it.
Scenes(RW, RH) ==
    LET S == Min2(RW, RH)
        viewport == <<Triangle(<<0, 0>>, <<RW, RH>>, <<RW, 0>>, 1, ColorA),
                      Triangle(<<0, 0>>, <<0, RH>>, <<RW, RH>>, 1, ColorB)>>
        square == <<Triangle(<<0, 0>>, <<S, 0>>, <<S, S>>, 1, ColorA),
                    Triangle(<<0, 0>>, <<S, S>>, <<0, S>>, 1, ColorB)>>
        overlap == <<Triangle(<<0, 0>>, <<S, 0>>, <<0, S>>, 1, ColorA),
                     Triangle(<<0, 0>>, <<S, S>>, <<S, 0>>, 2, ColorB)>>
    IN  {[tris |-> viewport, tiles |-> Rect(0, 0, RW, RH), cull |-> "Back"],
         [tris |-> viewport, tiles |-> Rect(0, 0, RW, RH), cull |-> "None"],
         [tris |-> square, tiles |-> Rect(0, 0, S, S), cull |-> "Front"],
         [tris |-> overlap, tiles |-> Rect(0, 0, 0, 0), cull |-> "None"]}

\* Storage of n elements, all holding v.
Storage(n, v) == [o \in 0 .. (n - 1) |-> v]

\* The buffers after Clear(true, true).
ClearInto(bufs) ==
    [color |-> IF ClearTarget(aaMode, rasterMode) = "color"
                  THEN [o \in DOMAIN bufs.color |-> ClearColorValue] ELSE bufs.color,
     aa |-> IF ClearTarget(aaMode, rasterMode) = "aa"
               THEN [o \in DOMAIN bufs.aa |-> ClearColorValue] ELSE bufs.aa,
     depth |-> [o \in DOMAIN bufs.depth |-> 0]]

\* The strip Draw hands to worker w.
FStrip(w) == StripRect(w, fThreads, cRenderW, cRenderH)

\* RenderingContext::Clear(true, true), called before Draw
F_Clear ==
    /\ fMain = "clear" /\ ~fFault
    /\ LET b == ClearInto([color |-> fColor, aa |-> fAA, depth |-> fDepth])
       IN  fColor' = b.color /\ fAA' = b.aa /\ fDepth' = b.depth
    /\ fMain' = "draw"
    /\ UNCHANGED <<fThreads, fCull, fScene, fTiles, fpc, fWrote, fReadAA, fFrags,
                   fFault, fGarbage>>

\* Draw: one task per worker
F_Draw ==
    /\ fMain = "draw" /\ ~fFault
    /\ fMain' = "wait"
    /\ fpc' = [w \in FWorkers |->
                 [phase |-> IF Len(fScene) > 0 THEN "rasterize" ELSE "resolve", k |-> 1]]
    /\ UNCHANGED <<fThreads, fCull, fScene, fTiles, fColor, fDepth, fAA, fWrote,
                   fReadAA, fFrags, fFault, fGarbage>>

\* RenderThread::Run: Rasterize of the next triangle into the worker's strip
F_Rasterize(w) ==
    /\ fMain = "wait" /\ ~fFault
    /\ fpc[w].phase = "rasterize"
    /\ \E r \in {RasterizeInto([color |-> fColor, aa |-> fAA, depth |-> fDepth],
                               FStrip(w), fScene[fpc[w].k])} :
           /\ fColor' = r.color /\ fAA' = r.aa /\ fDepth' = r.depth
           /\ fWrote' = [fWrote EXCEPT ![w] = @ \cup r.wrote]
           /\ fFrags' = [q \in DOMAIN fFrags |->
                            IF q \in r.pixels THEN fFrags[q] + 1 ELSE fFrags[q]]
           /\ fFault' = r.oob
    /\ fpc' = [fpc EXCEPT ![w] = IF @.k < Len(fScene)
                                    THEN [phase |-> "rasterize", k |-> @.k + 1]
                                    ELSE [phase |-> "resolve", k |-> @.k]]
    /\ UNCHANGED <<fThreads, fCull, fScene, fTiles, fMain, fReadAA, fGarbage>>

\* RenderThread::Run: Resolve(task.rect).  crash: the build faults on a
\* misaligned _mm_load_si128 (otherwise the load reads the samples).
F_Resolve(w, crash) ==
    /\ fMain = "wait" /\ ~fFault
    /\ fpc[w].phase = "resolve"
    /\ crash => Misaligned(FStrip(w))
    /\ IF crash
          THEN fFault' = TRUE /\ UNCHANGED <<fColor, fReadAA, fWrote, fpc>>
          ELSE /\ fColor' = ResolveInto([color |-> fColor, aa |-> fAA, depth |-> fDepth],
                                        FStrip(w))
               /\ fReadAA' = [fReadAA EXCEPT ![w] = @ \cup ResolveReads(FStrip(w))]
               /\ fWrote' = [fWrote EXCEPT
                                ![w] = @ \cup {<<"color", o>> : o \in ResolveWrites(FStrip(w))}]
               /\ fpc' = [fpc EXCEPT ![w] = [phase |-> "done", k |-> @.k]]
               /\ UNCHANGED fFault
    /\ UNCHANGED <<fThreads, fCull, fScene, fTiles, fDepth, fAA, fMain, fFrags, fGarbage>>

\* Draw: every Wait has returned
F_Return ==
    /\ fMain = "wait" /\ ~fFault
    /\ \A w \in FWorkers : fpc[w].phase = "done"
    /\ fMain' = "done"
    /\ UNCHANGED <<fThreads, fCull, fScene, fTiles, fColor, fDepth, fAA, fpc, fWrote,
                   fReadAA, fFrags, fFault, fGarbage>>

\* A context after rasterizationMode(rm) and antiAliasingMode(aa), its
\* buffers as allocated, and one of the frames of scenes to draw.
FrameStart(scenes) ==
    /\ cWidth \in 1 .. MaxFrameWidth
    /\ cHeight \in 1 .. MaxFrameHeight
    /\ rasterMode \in RasterModes
    /\ aaMode \in AAModes
    /\ LET plan == AAPlan(aaMode, rasterMode, cWidth, cHeight)
       IN  /\ cRenderW = plan[1]
           /\ cRenderH = plan[2]
           /\ colorBuf = Resize(EmptyBuffer, plan[3][1], plan[3][2], plan[3][3], FALSE, FALSE).buf
           /\ depthBuf = Resize(EmptyBuffer, plan[4][1], plan[4][2], plan[4][3], FALSE, FALSE).buf
           /\ aaBuf = Resize(EmptyBuffer, plan[5][1], plan[5][2], plan[5][3], FALSE, FALSE).buf
    /\ crashed = FALSE
    /\ cLast = [op |-> "antiAliasingMode", failed |-> FALSE, outcome |-> "returned"]
    /\ fThreads \in 1 .. MaxThreads
    /\ \E sc \in {c \in scenes :
                     rasterMode = "Scanline" =>
                         \A k \in 1 .. Len(c.tris) : ScanExact(c.tris[k].p)} :
          fScene = sc.tris /\ fTiles = sc.tiles /\ fCull = sc.cull
    /\ fGarbage \in Garbage
    /\ fColor = Storage(BufferSize(colorBuf), fGarbage)
    /\ fDepth = Storage(BufferSize(depthBuf), fGarbage)
    /\ fAA = Storage(BufferSize(aaBuf), fGarbage)
    /\ fMain = "clear"
    /\ fpc = [w \in FWorkers |-> [phase |-> "idle", k |-> 0]]
    /\ fWrote = [w \in FWorkers |-> {}]
    /\ fReadAA = [w \in FWorkers |-> {}]
    /\ fFrags = [q \in (0 .. cRenderW - 1) \X (0 .. cRenderH - 1) |-> 0]
    /\ fFault = FALSE

FrameInit == FrameStart(Scenes(cRenderW, cRenderH))

\* Frames whose first triangle the rasterizers drop: its vertices lie on one
\* line, or it lies in the top row only and so misses the strips below.  A
\* triangle over the whole viewport follows it.
DropScenes(RW, RH) ==
    LET after == Triangle(<<0, 0>>, <<RW, RH>>, <<RW, 0>>, 1, ColorB)
        firsts == {Triangle(<<0, 0>>, <<RW, RH>>, <<0, 0>>, 2, ColorA),
                   Triangle(<<0, 0>>, <<RW, RH>>, <<RW, RH>>, 2, ColorA),
                   Triangle(<<0, 1>>, <<RW, 1>>, <<1, 1>>, 2, ColorA),
                   Triangle(<<0, 0>>, <<RW, 1>>, <<RW, 0>>, 2, ColorA)}
    IN  {[tris |-> <<t, after>>, tiles |-> Rect(0, 0, RW, RH), cull |-> c] :
            t \in firsts, c \in {"None", "Back"}}

\* The same frame loop on the frames of DropScenes (specification DropSpec).
DropInit == FrameStart(DropScenes(cRenderW, cRenderH))

FrameNext ==
    \/ F_Clear
    \/ F_Draw
    \/ \E w \in FWorkers : F_Rasterize(w)
    \/ \E w \in FWorkers, crash \in BOOLEAN : F_Resolve(w, crash)
    \/ F_Return

(***************************************************************************)
(* IEEE-754 binary32 as the clip passes and the viewport transform use it. *)
(* A float is (-1)^s * m * 2^e with 0 <= m < 2^24 and e >= -149; m >= 2^23 *)
(* unless the value is zero or subnormal (e = -149).  Every operation is   *)
(* the exact result rounded to nearest, ties to even.  Infinities and NaNs *)
(* are left out: the triangles of the model never overflow, and a clip     *)
(* pass divides only by the difference of two coordinates it found         *)
(* different.                                                              *)
(***************************************************************************)

F32(s, m, e) == [s |-> s, m |-> m, e |-> e]

F32Zero == F32(0, 0, 0)

RECURSIVE Pow2(_)
Pow2(n) == IF n <= 0 THEN 1 ELSE 2 * Pow2(n - 1)

\* The number of bits of n >= 0.
RECURSIVE BitLen(_)
BitLen(n) == IF n = 0 THEN 0 ELSE 1 + BitLen(n \div 2)

\* The float nearest to (-1)^s * (M + f) * 2^e, where 0 <= f < 1 and f > 0
\* iff sticky; M has at least 26 bits whenever sticky.
F32Round(s, M, e, sticky) ==
    IF M = 0 THEN F32Zero
    ELSE LET L == BitLen(M)
             sh == IF e + (L - 24) < -149 THEN -149 - e ELSE L - 24
         IN  IF sh <= 0
                THEN F32(s, M * Pow2(-sh), e + sh)
             ELSE IF sh > L
                THEN F32Zero
             ELSE LET q == M \div Pow2(sh)
                      r == M % Pow2(sh)
                      half == Pow2(sh - 1)
                      up == r > half \/ (r = half /\ (sticky \/ q % 2 = 1))
                      m == IF up THEN q + 1 ELSE q
                  IN  IF m = 0 THEN F32Zero
                      ELSE IF m = 16777216 THEN F32(s, 8388608, e + sh + 1)
                      ELSE F32(s, m, e + sh)

\* (float)n
F32OfInt(n) == F32Round(IF n < 0 THEN 1 ELSE 0, Abs(n), 0, FALSE)

F32Neg(a) == IF a.m = 0 THEN a ELSE F32(1 - a.s, a.m, a.e)

\* |hi| + |lo| or |hi| - |lo| for hi.e >= lo.e, with three guard bits.
F32AddMag(s, hi, lo, subtract) ==
    LET d == hi.e - lo.e
        H == hi.m * 8
        Lm == IF d <= 3 THEN lo.m * Pow2(3 - d)
              ELSE IF d - 3 > 24 THEN 0
              ELSE lo.m \div Pow2(d - 3)
        sticky == d > 3 /\ (d - 3 > 24 \/ lo.m % Pow2(d - 3) # 0)
    IN  IF ~subtract THEN F32Round(s, H + Lm, hi.e - 3, sticky)
        ELSE IF H >= Lm
           THEN F32Round(s, IF sticky THEN H - Lm - 1 ELSE H - Lm, hi.e - 3, sticky)
           ELSE F32Round(1 - s, Lm - H, hi.e - 3, FALSE)

\* a + b
F32Add(a, b) ==
    IF a.m = 0 THEN b
    ELSE IF b.m = 0 THEN a
    ELSE IF a.e >= b.e THEN F32AddMag(a.s, a, b, a.s # b.s)
    ELSE F32AddMag(b.s, b, a, a.s # b.s)

\* a - b
F32Sub(a, b) == F32Add(a, F32Neg(b))

\* The 48-bit product hi * 2^24 + lo cut to 29 bits and a sticky bit.
F32MulPack(s, hi, lo, e) ==
    IF hi = 0 THEN F32Round(s, lo, e, FALSE)
    ELSE LET k == 29 - BitLen(hi)
         IN  IF k >= 24 THEN F32Round(s, hi * Pow2(k) + lo * Pow2(k - 24), e + 24 - k, FALSE)
             ELSE F32Round(s, hi * Pow2(k) + lo \div Pow2(24 - k), e + 24 - k,
                           lo % Pow2(24 - k) # 0)

\* a * b, the mantissas multiplied in 12-bit halves
F32Mul(a, b) ==
    IF a.m = 0 \/ b.m = 0 THEN F32Zero
    ELSE LET a1 == a.m \div 4096
             a0 == a.m % 4096
             b1 == b.m \div 4096
             b0 == b.m % 4096
             mid == a1 * b0 + a0 * b1
             low == (mid % 4096) * 4096 + a0 * b0
             hi == a1 * b1 + mid \div 4096 + low \div 16777216
         IN  F32MulPack(IF a.s = b.s THEN 0 ELSE 1, hi, low % 16777216, a.e + b.e)

\* n more quotient bits of r / d by long division: <<quotient, remainder>>.
RECURSIVE DivBits(_, _, _, _)
DivBits(q, r, d, n) ==
    IF n = 0 THEN <<q, r>>
    ELSE IF 2 * r >= d THEN DivBits(2 * q + 1, 2 * r - d, d, n - 1)
    ELSE DivBits(2 * q, 2 * r, d, n - 1)

\* a / b for b # 0, on mantissas normalised to 24 bits
F32Div(a, b) ==
    IF a.m = 0 THEN F32Zero
    ELSE LET ka == 24 - BitLen(a.m)
             kb == 24 - BitLen(b.m)
             na == a.m * Pow2(ka)
             nb == b.m * Pow2(kb)
             qr == DivBits(na \div nb, na % nb, nb, 26)
         IN  F32Round(IF a.s = b.s THEN 0 ELSE 1, qr[1], (a.e - ka) - (b.e - kb) - 26,
                      qr[2] # 0)

\* |a| < |b|
F32MagLt(a, b) ==
    IF b.m = 0 THEN FALSE
    ELSE IF a.m = 0 THEN TRUE
    ELSE LET ta == a.e + BitLen(a.m)
             tb == b.e + BitLen(b.m)
         IN  ta < tb \/ (ta = tb /\ a.m * Pow2(24 - BitLen(a.m)) < b.m * Pow2(24 - BitLen(b.m)))

\* a < b, a <= b, a > b, a >= b
F32Lt(a, b) ==
    IF a.m = 0 /\ b.m = 0 THEN FALSE
    ELSE IF a.m = 0 THEN b.s = 0
    ELSE IF b.m = 0 THEN a.s = 1
    ELSE IF a.s # b.s THEN a.s = 1
    ELSE IF a.s = 0 THEN F32MagLt(a, b) ELSE F32MagLt(b, a)

F32Le(a, b) == ~F32Lt(b, a)
F32Gt(a, b) == F32Lt(b, a)
F32Ge(a, b) == ~F32Lt(a, b)

\* The float is a whole number; the whole number it is.
F32IsInt(a) == a.m = 0 \/ a.e >= 0 \/ (a.e >= -23 /\ a.m % Pow2(-a.e) = 0)

F32ToInt(a) ==
    IF a.m = 0 THEN 0
    ELSE (IF a.s = 1 THEN -1 ELSE 1)
            * (IF a.e >= 0 THEN a.m * Pow2(a.e) ELSE a.m \div Pow2(-a.e))

(***************************************************************************)
(* Draw's loop body for one triangle: ClipDepth, perspective divide and    *)
(* viewport transform, ClipScreen, fan (specification ClipSpec).  A vertex *)
(* has the position channels x, y, z, w and u, one of the eight channels   *)
(* of normal, texcoord and worldPos, which Vertex's operators treat alike. *)
(***************************************************************************)

\* Vertex tmp[9]
WorkArraySize == 9

F32One == F32(0, 8388608, -23)
F32Half == F32(0, 8388608, -24)

Vertex(x, y, z, w, u) == [x |-> x, y |-> y, z |-> z, w |-> w, u |-> u]

\* Vertex::operator+
VAdd(a, b) ==
    Vertex(F32Add(a.x, b.x), F32Add(a.y, b.y), F32Add(a.z, b.z), F32Add(a.w, b.w),
           F32Add(a.u, b.u))

\* Vertex::operator-
VSub(a, b) ==
    Vertex(F32Sub(a.x, b.x), F32Sub(a.y, b.y), F32Sub(a.z, b.z), F32Sub(a.w, b.w),
           F32Sub(a.u, b.u))

\* A scaling that leaves the attribute channel as it is.
Mut_VScale(a, t) ==
    Vertex(F32Mul(a.x, t), F32Mul(a.y, t), F32Mul(a.z, t), F32Mul(a.w, t), a.u)

\* Vertex::operator*(float)
VScale(a, t) ==
    Vertex(F32Mul(a.x, t), F32Mul(a.y, t), F32Mul(a.z, t), F32Mul(a.w, t),
           F32Mul(a.u, t))

DepthPlanes == {"near", "far"}
ScreenPlanes == {"left", "right", "top", "bottom"}

\* float left, right, top, bot
PlaneBound(plane, W, H) ==
    IF plane = "right" THEN F32OfInt(W)
    ELSE IF plane = "bottom" THEN F32OfInt(H)
    ELSE F32Zero

\* bool in0, in1
Inside(plane, p, bound) ==
    IF plane = "near" THEN F32Gt(p.z, F32Zero)
    ELSE IF plane = "far" THEN F32Le(p.z, p.w)
    ELSE IF plane = "left" THEN F32Ge(p.x, bound)
    ELSE IF plane = "right" THEN F32Le(p.x, bound)
    ELSE IF plane = "top" THEN F32Ge(p.y, bound)
    ELSE F32Le(p.y, bound)

\* float t
CrossT(plane, p0, p1, bound) ==
    IF plane = "near" THEN F32Div(F32Neg(p0.z), F32Sub(p1.z, p0.z))
    ELSE IF plane = "far"
       THEN F32Div(F32Sub(p0.w, p0.z),
                   F32Add(F32Sub(F32Sub(p1.z, p0.z), p1.w), p0.w))
    ELSE IF plane \in {"left", "right"}
       THEN F32Div(F32Sub(bound, p0.x), F32Sub(p1.x, p0.x))
    ELSE F32Div(F32Sub(bound, p0.y), F32Sub(p1.y, p0.y))

\* p0 + (p1 - p0) * t
Lerp(p0, p1, t) == VAdd(p0, VScale(VSub(p1, p0), t))

\* tmp[newCount++].position.x = left, and the like
Snap(plane, v, bound) ==
    IF plane \in {"left", "right"} THEN [v EXCEPT !.x = bound]
    ELSE IF plane \in {"top", "bottom"} THEN [v EXCEPT !.y = bound]
    ELSE v

\* The vertex stored for an edge that crosses the plane, with the edge and t.
Crossing(plane, p0, p1, bound, t) ==
    [p0 |-> p0, p1 |-> p1, t |-> t, v |-> Snap(plane, Lerp(p0, p1, t), bound)]

\* One turn of a pass's loop: what it stores for the edge p0 -> p1.
ClipEdge(plane, p0, p1, bound, in0, in1) ==
    IF in0 # in1
       THEN [verts |-> IF in1 THEN <<Crossing(plane, p0, p1, bound,
                                              CrossT(plane, p0, p1, bound)).v, p1>>
                       ELSE <<Crossing(plane, p0, p1, bound,
                                       CrossT(plane, p0, p1, bound)).v>>,
             crossings |-> <<Crossing(plane, p0, p1, bound, CrossT(plane, p0, p1, bound))>>]
       ELSE [verts |-> IF in1 THEN <<p1>> ELSE <<>>, crossings |-> <<>>]

ClipJoin(a, b) ==
    [verts |-> a.verts \o b.verts, crossings |-> a.crossings \o b.crossings]

\* The loop of one pass from edge i on.
RECURSIVE ClipFrom(_, _, _, _)
ClipFrom(plane, verts, bound, i) ==
    IF i > Len(verts) THEN [verts |-> <<>>, crossings |-> <<>>]
    ELSE ClipJoin(ClipEdge(plane, verts[i], verts[(i % Len(verts)) + 1], bound,
                           Inside(plane, verts[i], bound),
                           Inside(plane, verts[(i % Len(verts)) + 1], bound)),
                  ClipFrom(plane, verts, bound, i + 1))

\* One pass of ClipDepth or ClipScreen over the polygon verts.
ClipPass(plane, verts, W, H) == ClipFrom(plane, verts, PlaneBound(plane, W, H), 1)

\* The step after a pass that left count vertices.
AfterPass(plane, count) ==
    IF plane = "near" THEN "far"
    ELSE IF plane = "far" THEN (IF count < 3 THEN "skipped" ELSE "project")
    ELSE IF plane = "left" THEN "right"
    ELSE IF plane = "right" THEN "top"
    ELSE IF plane = "top" THEN "bottom"
    ELSE IF count < 3 THEN "skipped" ELSE "fan"

\* One pass: a tenth vertex is stored past the end of the work array.
CL_Pass(plane) ==
    /\ clStage = plane
    /\ \E r \in {ClipPass(plane, clVerts, clIn.W, clIn.H)} :
          /\ clVerts' = r.verts
          /\ clLast' = [plane |-> plane, before |-> clVerts, crossings |-> r.crossings]
          /\ clStage' = IF Len(r.verts) > WorkArraySize THEN "overrun"
                        ELSE AfterPass(plane, Len(r.verts))
    /\ UNCHANGED <<clIn, clOut>>

\* Perspective divide and viewport transformation of one vertex.
Project(v, W, H) ==
    LET zr == F32Div(F32One, v.w)
        s == VScale(v, zr)
    IN  Vertex(F32Mul(F32Mul(F32Add(s.x, F32One), F32Half), F32OfInt(W)),
               F32Sub(F32OfInt(H),
                      F32Mul(F32Mul(F32Add(s.y, F32One), F32Half), F32OfInt(H))),
               s.z, zr, s.u)

RECURSIVE ProjectAll(_, _, _, _)
ProjectAll(verts, W, H, i) ==
    IF i > Len(verts) THEN <<>>
    ELSE <<Project(verts[i], W, H)>> \o ProjectAll(verts, W, H, i + 1)

CL_Project ==
    /\ clStage = "project"
    /\ clVerts' = ProjectAll(clVerts, clIn.W, clIn.H, 1)
    /\ clStage' = "left"
    /\ UNCHANGED <<clIn, clLast, clOut>>

\* for(i = 1; i < nVerts - 1; i++) push_back(tmp[0], tmp[i], tmp[i + 1])
RECURSIVE Fan(_, _)
Fan(verts, i) ==
    IF i >= Len(verts) THEN <<>>
    ELSE <<verts[1], verts[i], verts[i + 1]>> \o Fan(verts, i + 1)

CL_Fan ==
    /\ clStage = "fan"
    /\ clOut' = Fan(clVerts, 2)
    /\ clStage' = "done"
    /\ UNCHANGED <<clIn, clVerts, clLast>>

\* Clip-space points of a 4 x 4 render: three around the viewport (screen
\* (-4,-4), (-4,6), (8,0)), three inside it, one behind the near plane and
\* one beyond the far plane.
ClipPoints ==
    {Vertex(F32OfInt(-3), F32OfInt(3), F32Half, F32One, F32Zero),
     Vertex(F32OfInt(-3), F32OfInt(-2), F32Half, F32One, F32One),
     Vertex(F32OfInt(3), F32OfInt(1), F32Half, F32One, F32OfInt(2)),
     Vertex(F32Half, F32Half, F32One, F32One, F32OfInt(3)),
     Vertex(F32Neg(F32Half), F32Half, F32One, F32One, F32OfInt(4)),
     Vertex(F32Zero, F32Neg(F32Half), F32Half, F32One, F32OfInt(5)),
     Vertex(F32Zero, F32Zero, F32OfInt(-1), F32One, F32OfInt(6)),
     Vertex(F32Zero, F32Neg(F32Half), F32OfInt(2), F32One, F32OfInt(7))}

\* A sliver through a 10 x 10 viewport, one vertex behind the camera and
\* one beyond the far plane of a projection with near 0.1 and far 100.
Sliver ==
    <<Vertex(F32(0, 8388612, -23), F32Zero, F32(1, 10601219, -20), F32(1, 10485760, -20),
             F32Zero),
      Vertex(F32(1, 10485760, -20), F32(0, 10485770, -20), F32(0, 10391293, -20),
             F32(0, 10485760, -20), F32One),
      Vertex(F32(0, 14073749, -47), F32(1, 13139968, -17), F32(0, 16398756, -14),
             F32(0, 16383996, -14), F32OfInt(2))>>

ClipInputs ==
    {[tri |-> t, W |-> 4, H |-> 4] :
        t \in {q \in ClipPoints \X ClipPoints \X ClipPoints :
                  q[1] # q[2] /\ q[1] # q[3] /\ q[2] # q[3]}}
    \cup {[tri |-> Sliver, W |-> 10, H |-> 10]}

ClipInit ==
    /\ clIn \in ClipInputs
    /\ clVerts = clIn.tri
    /\ clStage = "near"
    /\ clLast = [plane |-> "none"]
    /\ clOut = <<>>

ClipNext ==
    \/ \E plane \in DepthPlanes \cup ScreenPlanes : CL_Pass(plane)
    \/ CL_Project
    \/ CL_Fan

ClipOff ==
    /\ clIn = [tri |-> <<>>, W |-> 0, H |-> 0] /\ clVerts = <<>> /\ clStage = "off"
    /\ clLast = [plane |-> "none"] /\ clOut = <<>>

(***************************************************************************)
(* Camera::CanSee as a function of the six frustum planes and the sphere   *)
(* (specification CanSeeSpec).  Planes and spheres are floats.             *)
(***************************************************************************)

FLT_EPSILON == F32(0, 8388608, -46)

Plane(a, b, c, d) == [a |-> a, b |-> b, c |-> c, d |-> d]
Sphere(x, y, z, radius) == [center |-> [x |-> x, y |-> y, z |-> z], radius |-> radius]

\* sphere.center.x * a + sphere.center.y * b + sphere.center.z * c + d
PlaneDistance(plane, center) ==
    F32Add(F32Add(F32Add(F32Mul(center.x, plane.a), F32Mul(center.y, plane.b)),
                  F32Mul(center.z, plane.c)),
           plane.d)

\* Plane::InBack(const Sphere&)
InBack(plane, sphere) == F32Lt(PlaneDistance(plane, sphere.center), F32Neg(sphere.radius))

\* Camera::CanSee after Update()
CanSee(frustum, bounds) ==
    IF F32Lt(bounds.radius, FLT_EPSILON) THEN FALSE
    ELSE ~(\E p \in 1 .. 6 : InBack(frustum[p], bounds))

\* Normalized planes in the order FP_LEFT .. FP_FAR: a box, and a pyramid
\* with side normals (0.8, 0, 0.6) as floats.
BoxFrustum ==
    <<Plane(F32OfInt(1), F32Zero, F32Zero, F32OfInt(2)),
      Plane(F32OfInt(-1), F32Zero, F32Zero, F32OfInt(2)),
      Plane(F32Zero, F32OfInt(-1), F32Zero, F32OfInt(2)),
      Plane(F32Zero, F32OfInt(1), F32Zero, F32OfInt(2)),
      Plane(F32Zero, F32Zero, F32OfInt(1), F32Zero),
      Plane(F32Zero, F32Zero, F32OfInt(-1), F32OfInt(4))>>

PyramidFrustum ==
    <<Plane(F32(0, 13421773, -24), F32Zero, F32(0, 10066330, -24), F32Zero),
      Plane(F32(1, 13421773, -24), F32Zero, F32(0, 10066330, -24), F32Zero),
      Plane(F32Zero, F32(1, 13421773, -24), F32(0, 10066330, -24), F32Zero),
      Plane(F32Zero, F32(0, 13421773, -24), F32(0, 10066330, -24), F32Zero),
      Plane(F32Zero, F32Zero, F32OfInt(1), F32OfInt(-1)),
      Plane(F32Zero, F32Zero, F32OfInt(-1), F32OfInt(4))>>

\* 0, 2^-24, 2^-23 = FLT_EPSILON, 1, 2
Radii == {F32Zero, F32(0, 8388608, -47), FLT_EPSILON, F32OfInt(1), F32OfInt(2)}

CenterCoords == {-4, -3, 0, 2, 5}

CS_CanSee ==
    /\ ~csRet.called
    /\ csRet' = [called |-> TRUE, value |-> CanSee(csFrustum, csBounds)]
    /\ UNCHANGED <<csFrustum, csBounds>>

\* The next call, with another sphere.
CS_Next ==
    /\ csRet.called
    /\ \E z \in CenterCoords, radius \in Radii :
          csBounds' = Sphere(csBounds.center.x, csBounds.center.y, F32OfInt(z), radius)
    /\ csRet' = [called |-> FALSE]
    /\ UNCHANGED csFrustum

CanSeeInit ==
    /\ csFrustum \in {BoxFrustum, PyramidFrustum}
    /\ csBounds \in {Sphere(F32OfInt(x), F32OfInt(y), F32OfInt(2), F32OfInt(1)) :
                        x \in CenterCoords, y \in {-3, 0}}
    /\ csRet = [called |-> FALSE]

CanSeeNext == CS_CanSee \/ CS_Next

CanSeeOff == csFrustum = <<>> /\ csBounds = <<>> /\ csRet = [called |-> FALSE]

(***************************************************************************)
(* Camera and Transform: setters, dirty flags and the lazily derived       *)
(* matrices and frustum planes (specification CameraSpec).  A matrix is    *)
(* the term that computes it, so two matrices are equal when they were     *)
(* computed from the same parameter values.                                *)
(***************************************************************************)

MaxCalls == 6

\* Mat4::Project3D
Project3D(fov, aspect, near, far) ==
    [sx |-> [cotHalf |-> fov],
     sy |-> [cotHalf |-> fov, times |-> aspect],
     sz |-> [num |-> far, den |-> far - near],
     tz |-> [num |-> -(near * far), den |-> far - near]]

\* The matrix Transform::GetMatrix builds.
MatrixOf(t) == [rot |-> t.rotation, scl |-> t.scale, pos |-> t.position]

\* The matrix Transform::GetInverseMatrix builds.
InverseMatrixOf(t) ==
    [rot |-> [inverse |-> t.rotation], scl |-> [oneOver |-> t.scale], pos |-> -t.position]

\* transform.GetInverseMatrix() * _mtxProjection
Mul(a, b) == [left |-> a, right |-> b]

FrustumPlanes == {"FP_LEFT", "FP_RIGHT", "FP_TOP", "FP_BOTTOM", "FP_NEAR", "FP_FAR"}

\* The six planes Update extracts from the rows of _mtxVP and normalizes.
FrustumOf(vp) == [p \in FrustumPlanes |-> [plane |-> p, of |-> vp]]

\* A Mat4 or Plane array that was never assigned.
Unset == [unset |-> TRUE]

\* Transform::GetMatrix
GetMatrix(t) ==
    IF t.matrixDirty THEN [t EXCEPT !.matrix = MatrixOf(t), !.matrixDirty = FALSE] ELSE t

\* Transform::GetInverseMatrix
GetInverseMatrix(t) ==
    IF t.inverseDirty
    THEN [t EXCEPT !.inverseMatrix = InverseMatrixOf(t), !.inverseDirty = FALSE]
    ELSE t

Mut_OnTransformChanged(c) == c

\* Camera::OnTransformChanged
OnTransformChanged(c) == [c EXCEPT !.updateView = TRUE]

\* Transform::SetDirty: the transform's part
SetDirty(t) == [t EXCEPT !.matrixDirty = TRUE, !.inverseDirty = TRUE]

\* Camera::Update: the first if
UpdateProjection(c) ==
    IF c.updateProjection
    THEN [c EXCEPT !.mtxProjection = Project3D(c.fov, c.aspect, c.nearPlane, c.farPlane)]
    ELSE c

\* Camera::Update: the second if and the flags, on the transform GetInverseMatrix left
UpdateView(c, t) ==
    [(IF c.updateView \/ c.updateProjection
      THEN [c EXCEPT !.mtxVP = Mul(t.inverseMatrix, c.mtxProjection),
                     !.frustum = FrustumOf(Mul(t.inverseMatrix, c.mtxProjection))]
      ELSE c)
     EXCEPT !.updateView = FALSE, !.updateProjection = FALSE]

\* The transform after Camera::Update.
UpdatedTransform ==
    IF camera.updateView \/ camera.updateProjection THEN GetInverseMatrix(transform)
    ELSE transform

\* The camera after Camera::Update.
UpdatedCamera == UpdateView(UpdateProjection(camera), UpdatedTransform)

CameraCall == camCalls < MaxCalls /\ camCalls' = camCalls + 1

\* SetFieldOfView, SetAspectRatio, SetNearPlane, SetFarPlane
CameraSet(field, v) ==
    /\ CameraCall
    /\ camera' = [camera EXCEPT ![field] = v, !.updateProjection = TRUE]
    /\ camRet' = [op |-> "set"]
    /\ UNCHANGED transform

\* Transform::SetPosition, SetScale, SetRotation on camera.transform
TransformSet(field, v) ==
    /\ CameraCall
    /\ transform' = SetDirty([transform EXCEPT ![field] = v])
    /\ camera' = OnTransformChanged(camera)
    /\ camRet' = [op |-> "set"]

\* GetProjectionMatrix, GetVPMatrix, CanSee (the planes it tests against)
CameraGet(op) ==
    /\ CameraCall
    /\ camera' = UpdatedCamera
    /\ transform' = UpdatedTransform
    /\ camRet' = [op |-> op,
                  value |-> CASE op = "GetProjectionMatrix" -> UpdatedCamera.mtxProjection
                              [] op = "GetVPMatrix" -> UpdatedCamera.mtxVP
                              [] op = "CanSee" -> UpdatedCamera.frustum,
                  before |-> camera.mtxVP]

\* camera.transform.GetMatrix(), GetInverseMatrix() called by the host
TransformGet(op) ==
    /\ CameraCall
    /\ transform' = IF op = "GetMatrix" THEN GetMatrix(transform)
                    ELSE GetInverseMatrix(transform)
    /\ camRet' = [op |-> op,
                  value |-> IF op = "GetMatrix" THEN GetMatrix(transform).matrix
                            ELSE GetInverseMatrix(transform).inverseMatrix,
                  before |-> camera.mtxVP]
    /\ UNCHANGED camera

\* Camera::Camera() with whole numbers for the parameters, Transform::Transform()
CameraInit ==
    /\ camera = [fov |-> 70, aspect |-> 1, nearPlane |-> 1, farPlane |-> 1000,
                 updateProjection |-> TRUE, updateView |-> TRUE,
                 mtxProjection |-> Unset, mtxVP |-> Unset, frustum |-> Unset]
    /\ transform = [position |-> 0, scale |-> 1, rotation |-> 0,
                    matrix |-> [rot |-> 0, scl |-> 1, pos |-> 0],
                    inverseMatrix |-> [rot |-> [inverse |-> 0], scl |-> [oneOver |-> 1],
                                       pos |-> 0],
                    matrixDirty |-> FALSE, inverseDirty |-> FALSE]
    /\ camRet = [op |-> "none"]
    /\ camCalls = 0

CameraNext ==
    \/ \E v \in {70, 90} : CameraSet("fov", v)
    \/ \E v \in {1, 2} : CameraSet("aspect", v)
    \/ \E v \in {1, 2} : CameraSet("nearPlane", v)
    \/ \E v \in {100, 1000} : CameraSet("farPlane", v)
    \/ \E v \in {0, 5} : TransformSet("position", v)
    \/ \E v \in {1, 2} : TransformSet("scale", v)
    \/ \E v \in {0, 90} : TransformSet("rotation", v)
    \/ \E op \in {"GetProjectionMatrix", "GetVPMatrix", "CanSee"} : CameraGet(op)
    \/ \E op \in {"GetMatrix", "GetInverseMatrix"} : TransformGet(op)

CameraOff ==
    camera = <<>> /\ transform = <<>> /\ camRet = [op |-> "off"] /\ camCalls = 0

(***************************************************************************)
(* RenderingContext::Draw on the main thread: the draw-call list, the      *)
(* vertex lists and the shader arena (poly_vector) over several frames     *)
(* (specification ListSpec).  A vector is its size and capacity; the arena *)
(* is its allocation, its capacity in bytes and its elements; a pointer to *)
(* a snapshot is an allocation and a byte offset.                          *)
(***************************************************************************)

MaxObjects == 3
MaxDraws == 2

\* The Shader instances of the scene and sizeof(obj_data<U>) of their types.
ShaderIds == {1, 2}
SizeOfShader(id) == IF id = 1 THEN 32 ELSE 48

\* Scene objects: the Shader instance, model->vertices.size(), the number of
\* vertices the clipped triangles come to, and whether CanSee holds.
ObjectKinds ==
    {[shader |-> 1, verts |-> 3, out |-> 3, visible |-> TRUE],
     [shader |-> 1, verts |-> 6, out |-> 9, visible |-> TRUE],
     [shader |-> 2, verts |-> 0, out |-> 0, visible |-> TRUE],
     [shader |-> 2, verts |-> 3, out |-> 0, visible |-> TRUE],
     [shader |-> 2, verts |-> 3, out |-> 3, visible |-> FALSE]}

\* Shader::Prepare: the fields hold the constants of that object.
Prepare(state, obj, i) == [state EXCEPT ![obj.shader] = [preparedFor |-> i]]

\* vector::reserve
VecReserve(v, n) == IF n > v.cap THEN [v EXCEPT !.cap = n] ELSE v

\* vector::push_back, growing by half when full
VecPush(v) ==
    [size |-> v.size + 1,
     cap |-> IF v.size < v.cap THEN v.cap
             ELSE IF v.cap + (v.cap \div 2) > v.size THEN v.cap + (v.cap \div 2)
             ELSE v.size + 1]

RECURSIVE VecPushN(_, _)
VecPushN(v, n) == IF n = 0 THEN v ELSE VecPushN(VecPush(v), n - 1)

\* vector::clear
VecClear(v) == [v EXCEPT !.size = 0]

\* poly_vector::size(): the bytes in use
RECURSIVE PolySize(_)
PolySize(elems) ==
    IF elems = <<>> THEN 0 ELSE SizeOfShader(Head(elems).type) + PolySize(Tail(elems))

\* poly_vector::reserve: the capacity it allocates, a power of two
RECURSIVE PolyCap(_, _)
PolyCap(cap, required) == IF cap < required THEN PolyCap(cap * 2, required) ELSE cap

\* poly_vector::reserve with a fresh allocation loses the elements.
Mut_PolyReserve(pv, required, heap) ==
    IF pv.cap < required
    THEN [block |-> heap + 1, cap |-> PolyCap(1, required), elems |-> <<>>]
    ELSE pv

\* poly_vector::reserve: a fresh allocation, the elements moved in order
PolyReserve(pv, required, heap) ==
    IF pv.cap < required
    THEN [block |-> heap + 1, cap |-> PolyCap(1, required), elems |-> pv.elems]
    ELSE pv

\* poly_vector::push_back on the reserved arena
PolyPush(pv, elem) == [pv EXCEPT !.elems = Append(pv.elems, elem)]

\* poly_vector::clear frees the storage.
Mut_PolyClear(pv) == [block |-> 0, cap |-> 0, elems |-> <<>>]

\* poly_vector::clear
PolyClear(pv) == [pv EXCEPT !.elems = <<>>]

\* Shader::CopyTo: a copy of the shader, fields as they are now, appended
CopyTo(id, state, pv, heap) ==
    PolyPush(PolyReserve(pv, PolySize(pv.elems) + SizeOfShader(id), heap),
             [type |-> id, state |-> state[id]])

\* iterator::operator* of the i-th element of the arena
PolyAt(pv, i) ==
    IF i <= Len(pv.elems)
    THEN [block |-> pv.block, offset |-> PolySize(SubSeq(pv.elems, 1, i - 1))]
    ELSE [block |-> pv.block, offset |-> PolySize(pv.elems), pastEnd |-> TRUE]

\* What a worker reads through a pointer into the arena.
Deref(pv, ptr) ==
    IF ptr = [block |-> pv.block, offset |-> ptr.offset]
       /\ \E i \in 1 .. Len(pv.elems) : PolyAt(pv, i) = ptr
    THEN pv.elems[CHOOSE i \in 1 .. Len(pv.elems) : PolyAt(pv, i) = ptr]
    ELSE [dangling |-> TRUE]

Caps == [xverts |-> xverts.cap, cverts |-> cverts.cap, drawCalls |-> drawCalls.cap,
         shaders |-> shaders.cap, block |-> shaders.block]

\* Draw up to the loop: _drawCalls.reserve(scene->objects.size())
L_Begin ==
    /\ lpc = "returned" /\ lFrame < MaxDraws
    /\ lFrame' = lFrame + 1
    /\ lBefore' = [lBefore EXCEPT !.caps = Caps]
    /\ drawCalls' = VecReserve(drawCalls, Len(lScene))
    /\ lpc' = "object" /\ lObj' = 1
    /\ UNCHANGED <<lScene, lShaderState, xverts, cverts, shaders, lHeap, lRead>>

\* The loop body for an object CanSee rejects.
L_Culled ==
    /\ lpc = "object" /\ lObj <= Len(lScene) /\ ~lScene[lObj].visible
    /\ lObj' = lObj + 1
    /\ UNCHANGED <<lpc, lScene, lShaderState, xverts, cverts, drawCalls, shaders,
                   lHeap, lRead, lFrame, lBefore>>

\* The loop body for a visible object without vertices: Prepare, continue.
L_Empty ==
    /\ lpc = "object" /\ lObj <= Len(lScene)
    /\ lScene[lObj].visible /\ lScene[lObj].verts = 0
    /\ lShaderState' = Prepare(lShaderState, lScene[lObj], lObj)
    /\ lObj' = lObj + 1
    /\ UNCHANGED <<lpc, lScene, xverts, cverts, drawCalls, shaders, lHeap, lRead,
                   lFrame, lBefore>>

\* The loop body for a visible object with vertices.
L_Object ==
    /\ lpc = "object" /\ lObj <= Len(lScene)
    /\ lScene[lObj].visible /\ lScene[lObj].verts > 0
    /\ lShaderState' = Prepare(lShaderState, lScene[lObj], lObj)
    /\ xverts' = VecClear(VecPushN(VecReserve(xverts, lScene[lObj].verts),
                                   lScene[lObj].verts))
    /\ cverts' = VecPushN(VecReserve(cverts, cverts.size + lScene[lObj].verts),
                          lScene[lObj].out)
    /\ shaders' = CopyTo(lScene[lObj].shader, lShaderState', shaders, lHeap)
    /\ lHeap' = IF shaders'.block = shaders.block THEN lHeap ELSE lHeap + 1
    /\ drawCalls' =
          [cap |-> VecPush(drawCalls).cap, size |-> drawCalls.size + 1,
           calls |-> Append(drawCalls.calls,
                            [start |-> cverts.size, end |-> cverts'.size,
                             obj |-> lObj, shader |-> [nullptr |-> TRUE]])]
    /\ lObj' = lObj + 1
    /\ UNCHANGED <<lpc, lScene, lRead, lFrame, lBefore>>

\* for(it, st ...) it->shader = *st
L_Patch ==
    /\ lpc = "object" /\ lObj > Len(lScene)
    /\ drawCalls' = [drawCalls EXCEPT !.calls =
                        [i \in 1 .. Len(drawCalls.calls) |->
                            [drawCalls.calls[i] EXCEPT !.shader = PolyAt(shaders, i)]]]
    /\ lpc' = "run"
    /\ UNCHANGED <<lObj, lScene, lShaderState, xverts, cverts, shaders, lHeap, lRead,
                   lFrame, lBefore>>

\* Execute .. Wait: the workers rasterize every draw call with its shader.
L_Run ==
    /\ lpc = "run"
    /\ lRead' = [i \in 1 .. Len(drawCalls.calls) |-> Deref(shaders, drawCalls.calls[i].shader)]
    /\ lpc' = "clear"
    /\ UNCHANGED <<lObj, lScene, lShaderState, xverts, cverts, drawCalls, shaders,
                   lHeap, lFrame, lBefore>>

\* _drawCalls.clear(); _shaders.clear(); _cverts.clear(); return
L_Clear ==
    /\ lpc = "clear"
    /\ drawCalls' = [cap |-> drawCalls.cap, size |-> 0, calls |-> <<>>]
    /\ shaders' = PolyClear(shaders)
    /\ cverts' = VecClear(cverts)
    /\ lpc' = "returned"
    /\ lBefore' = [lBefore EXCEPT !.sameScene = TRUE, !.atClear = Caps]
    /\ lRead' = <<>>
    /\ UNCHANGED <<lObj, lScene, lShaderState, xverts, lHeap, lFrame>>

\* Between two frames the host adds an object to the scene or removes one.
L_AddObject ==
    /\ lpc = "returned" /\ lFrame >= 1 /\ lFrame < MaxDraws /\ Len(lScene) < MaxObjects
    /\ \E obj \in ObjectKinds : lScene' = Append(lScene, obj)
    /\ lBefore' = [lBefore EXCEPT !.sameScene = FALSE]
    /\ UNCHANGED <<lpc, lObj, lShaderState, xverts, cverts, drawCalls, shaders, lHeap,
                   lRead, lFrame>>

L_RemoveObject ==
    /\ lpc = "returned" /\ lFrame >= 1 /\ lFrame < MaxDraws /\ Len(lScene) > 0
    /\ lScene' = SubSeq(lScene, 1, Len(lScene) - 1)
    /\ lBefore' = [lBefore EXCEPT !.sameScene = FALSE]
    /\ UNCHANGED <<lpc, lObj, lShaderState, xverts, cverts, drawCalls, shaders, lHeap,
                   lRead, lFrame>>

ListScenes == UNION {[1 .. n -> ObjectKinds] : n \in 0 .. MaxObjects}

ListInit ==
    /\ lpc = "returned" /\ lObj = 0 /\ lFrame = 0
    /\ lScene \in ListScenes
    /\ lShaderState = [id \in ShaderIds |-> [preparedFor |-> 0]]
    /\ xverts = [size |-> 0, cap |-> 0]
    /\ cverts = [size |-> 0, cap |-> 0]
    /\ drawCalls = [cap |-> 0, size |-> 0, calls |-> <<>>]
    /\ shaders = [block |-> 0, cap |-> 0, elems |-> <<>>]
    /\ lHeap = 0
    /\ lRead = <<>>
    /\ lBefore = [caps |-> Caps, atClear |-> Caps, sameScene |-> FALSE]

ListNext ==
    \/ L_Begin
    \/ L_Culled
    \/ L_Empty
    \/ L_Object
    \/ L_Patch
    \/ L_Run
    \/ L_Clear
    \/ L_AddObject
    \/ L_RemoveObject

ListOff ==
    /\ lpc = "off" /\ lObj = 0 /\ lScene = <<>> /\ lShaderState = <<>>
    /\ xverts = <<>> /\ cverts = <<>> /\ drawCalls = <<>> /\ shaders = <<>>
    /\ lHeap = 0 /\ lRead = <<>> /\ lFrame = 0 /\ lBefore = <<>>

(***************************************************************************)
(* Texture::Texture: the levels of the mip chain and where each starts in  *)
(* the allocation (specification MipSpec).                                 *)
(***************************************************************************)

MaxTexSize == 12

\* The next level is the previous one rounded up.
Mut_Halve(w) == IF w > 1 THEN (w + 1) \div 2 ELSE w

\* if(w > 1) w >>= 1
Halve(w) == IF w > 1 THEN w \div 2 ELSE w

\* One turn of while(true): push the level, count its pixels, stop at 1x1.
M_Level ==
    /\ mipStage = "levels"
    /\ mipmaps' = Append(mipmaps, [pixels |-> "nullptr", width |-> mipCur[1],
                                    height |-> mipCur[2]])
    /\ mipCount' = mipCount + mipCur[1] * mipCur[2]
    /\ IF mipCur[1] = 1 /\ mipCur[2] = 1
          THEN mipStage' = "alloc" /\ UNCHANGED mipCur
          ELSE mipStage' = "levels" /\ mipCur' = <<Halve(mipCur[1]), Halve(mipCur[2])>>
    /\ UNCHANGED <<mipSize, mipAlloc>>

\* _pixels.reset(AlignedAlloc<Color32>(pixelCount, 16))
M_Alloc ==
    /\ mipStage = "alloc"
    /\ mipAlloc' = mipCount
    /\ mipStage' = "assign"
    /\ UNCHANGED <<mipSize, mipCur, mipmaps, mipCount>>

\* The element offset pPixels has when the loop reaches level k.
RECURSIVE MipOffset(_, _)
MipOffset(mips, k) ==
    IF k = 1 THEN 0
    ELSE MipOffset(mips, k - 1) + mips[k - 1].width * mips[k - 1].height

\* for(auto& mip : _mipmaps) { ... mip.pixels = pPixels; ... pPixels += count; }
M_Assign ==
    /\ mipStage = "assign"
    /\ mipmaps' = [k \in 1 .. Len(mipmaps) |->
                      [mipmaps[k] EXCEPT !.pixels = MipOffset(mipmaps, k)]]
    /\ mipStage' = "done"
    /\ UNCHANGED <<mipSize, mipCur, mipCount, mipAlloc>>

MipInit ==
    /\ mipSize \in (1 .. MaxTexSize) \X (1 .. MaxTexSize)
    /\ mipCur = mipSize
    /\ mipmaps = <<>>
    /\ mipCount = 0
    /\ mipAlloc = 0
    /\ mipStage = "levels"

MipNext == M_Level \/ M_Alloc \/ M_Assign

MipOff ==
    /\ mipSize = <<0, 0>> /\ mipCur = <<0, 0>> /\ mipmaps = <<>> /\ mipCount = 0
    /\ mipAlloc = 0 /\ mipStage = "off"

(***************************************************************************)
(* One pixel under the fragment stage of the three rasterizers: the depth  *)
(* test of its samples, ProcessPixel and its discard flag, and the writes  *)
(* (specification PixelSpec).                                              *)
(***************************************************************************)

\* SAMPLE_COUNT of RasterizeHalfSpaceMSAA
SAMPLE_COUNT == 4

Rasterizers == {"RasterizeHalfSpace", "RasterizeHalfSpaceMSAA", "RasterizeScanline"}

\* The samples of a pixel a rasterizer tests and writes.
PixelSamples(fn) == IF fn = "RasterizeHalfSpaceMSAA" THEN 1 .. SAMPLE_COUNT ELSE {1}

\* Samples written although the fragment stage reported discard.
Mut_WriteSamples(fill, discard) == fill

\* if(!discard): the samples of fill are written, none after a discard.
WriteSamples(fill, discard) == IF discard THEN {} ELSE fill

\* uint8_t fill = coverage & depth; the single-sample rasterizers test
\* xv.position.w > *depthBuffer on the one sample of a visible pixel.
FillMask(coverage, ws, depth) == {i \in coverage : DepthTest(ws[i], depth[i])}

\* A pixel the rasterizer fn found covered at the samples coverage, its
\* interpolated depths ws, shaded with color c unless no sample passes.
P_Fragment(fn, coverage, ws, c, discard) ==
    /\ pCount < MaxFragments
    /\ pCount' = pCount + 1
    /\ coverage # {} /\ coverage \subseteq PixelSamples(fn)
    /\ \E fill \in {FillMask(coverage, ws, pDepth)} :
          /\ pColor' = [i \in 1 .. SAMPLE_COUNT |->
                          IF i \in WriteSamples(fill, discard) THEN c ELSE pColor[i]]
          /\ pDepth' = [i \in 1 .. SAMPLE_COUNT |->
                          IF i \in WriteSamples(fill, discard) THEN ws[i] ELSE pDepth[i]]
          /\ pLast' = [op |-> "fragment", fn |-> fn, fill |-> fill,
                       discard |-> fill # {} /\ discard,
                       color |-> pColor, depth |-> pDepth]

\* Clear(true, true) seen from the pixel.
P_Clear ==
    /\ pColor' = [i \in 1 .. SAMPLE_COUNT |-> ClearColorValue]
    /\ pDepth' = [i \in 1 .. SAMPLE_COUNT |-> 0]
    /\ pLast' = [op |-> "clear"]
    /\ UNCHANGED pCount

PixelInit ==
    /\ pColor = [i \in 1 .. SAMPLE_COUNT |-> ClearColorValue]
    /\ pDepth = [i \in 1 .. SAMPLE_COUNT |-> 0]
    /\ pCount = 0
    /\ pLast = [op |-> "clear"]

PixelNext ==
    \/ P_Clear
    \/ \E fn \in Rasterizers, coverage \in SUBSET (1 .. SAMPLE_COUNT),
          w \in 1 .. MaxDepth, discard \in BOOLEAN :
          P_Fragment(fn, coverage, [i \in 1 .. SAMPLE_COUNT |-> w],
                     IF pCount = 0 THEN ColorA ELSE ColorB, discard)

PixelOff == pColor = <<>> /\ pDepth = <<>> /\ pCount = 0 /\ pLast = [op |-> "off"]

(***************************************************************************)
(* RenderBuffer: GetSuperSampleOffset, GetSuperSampleRowOffset and         *)
(* GetSuperSampleColumnOffset called on a buffer (specification            *)
(* OffsetSpec).                                                            *)
(***************************************************************************)

MaxBufWidth == 3
MaxBufHeight == 2

\* The render coordinates of a buffer: all of them for a small buffer, for a
\* wide one the ends and the surroundings of the multiples of 2^16.
Around(v) == {v - 1, v, v + 1}

RenderXs(b) ==
    IF b.width <= MaxBufWidth THEN 0 .. (b.X * b.width - 1)
    ELSE (Around(1) \cup Around(65536) \cup Around(131072) \cup Around(262144))
            \cap (0 .. (b.X * b.width - 1))

RenderYs(b) == 0 .. (b.X * b.height - 1)

\* for(y ...) rowOffset = outBuffer.GetSuperSampleRowOffset<X>(y)
O_Row ==
    \E y \in RenderYs(ofsBuf) :
        /\ ofsRow' = [y |-> y, offset |-> GetSuperSampleRowOffset(ofsBuf, ofsBuf.X, y)]
        /\ ofsLoop' = Unset
        /\ UNCHANGED <<ofsBuf, ofsFull>>

\* for(x ...) offset = rowOffset + outBuffer.GetSuperSampleColumnOffset<X>(x)
O_Column ==
    /\ ofsRow # Unset
    /\ \E x \in RenderXs(ofsBuf) :
          ofsLoop' = [x |-> x, y |-> ofsRow.y,
                      offset |-> ofsRow.offset + GetSuperSampleColumnOffset(ofsBuf.X, x)]
    /\ UNCHANGED <<ofsBuf, ofsRow, ofsFull>>

\* GetSuperSampleOffset<X>(x, y)
O_Full ==
    /\ \E x \in RenderXs(ofsBuf), y \in RenderYs(ofsBuf) :
          ofsFull' = [x |-> x, y |-> y, offset |-> GetSuperSampleOffset(ofsBuf, ofsBuf.X, x, y)]
    /\ UNCHANGED <<ofsBuf, ofsRow, ofsLoop>>

\* _aaBuffer.Resize(_width, _height, X * X) for a context of the given size.
BufWidths == (1 .. MaxBufWidth) \cup {65536, 65537}

OffsetInit ==
    /\ ofsBuf \in {[X |-> X, width |-> w, height |-> h] :
                      X \in {2, 4}, w \in BufWidths, h \in 1 .. MaxBufHeight}
    /\ ofsRow = Unset
    /\ ofsLoop = Unset
    /\ ofsFull = Unset

OffsetNext == O_Row \/ O_Column \/ O_Full

OffsetOff ==
    /\ ofsBuf = [X |-> 0, width |-> 0, height |-> 0]
    /\ ofsRow = Unset /\ ofsLoop = Unset /\ ofsFull = Unset

(***************************************************************************)
(* The attributes of a fragment: Draw's perspective divide, the setup of   *)
(* RasterizeHalfSpace (v00, xDelta, yDelta), the stepping of yv and xv and *)
(* the division by the stepped 1/w (specification InterpSpec).  The        *)
(* triangle covers the upper left half of a render target of InterpSize    *)
(* pixels a side, and the w of its vertices are powers of two, so that the *)
(* vertices Draw produces and the three values Interpolate returns have    *)
(* few mantissa bits and are the same however Interpolate rounds.          *)
(***************************************************************************)

InterpSize == 4

\* 0.01f
F32Hundredth == F32(0, 10737418, -30)

\* Vertex::operator/(float): float num = 1.0f / denom, then a scaling
VDiv(a, denom) == VScale(a, F32Div(F32One, denom))

\* The edge vectors of the triangle and the point q relative to its first
\* corner: <<e1x, e1y, e2x, e2y, qx, qy>>.
EdgeDiffs(v, q) ==
    <<F32Sub(v[2].x, v[1].x), F32Sub(v[2].y, v[1].y), F32Sub(v[3].x, v[1].x),
      F32Sub(v[3].y, v[1].y), F32Sub(q[1], v[1].x), F32Sub(q[2], v[1].y)>>

\* The cross products of the 2D edge system: <<det, q x e2, e1 x q>>.
EdgeCross(d) ==
    <<F32Sub(F32Mul(d[1], d[4]), F32Mul(d[3], d[2])),
      F32Sub(F32Mul(d[5], d[4]), F32Mul(d[3], d[6])),
      F32Sub(F32Mul(d[1], d[6]), F32Mul(d[5], d[2]))>>

\* The weights of the second and third corner, then all three.
EdgeRatios(c) == <<F32Div(c[2], c[1]), F32Div(c[3], c[1])>>

EdgeWeights(r) == <<F32Sub(F32Sub(F32One, r[1]), r[2]), r[1], r[2]>>

\* v0 * l1 + v1 * l2 + v2 * l3
Weighted(v, l) == VAdd(VAdd(VScale(v[1], l[1]), VScale(v[2], l[2])), VScale(v[3], l[3]))

\* BarycentricTriangle::Interpolate: the weights of the point q from the 2D
\* edge system of the screen positions, then the weighted sum of the
\* vertices.
Interpolate(v, q) ==
    CHOOSE w \in {Weighted(v, l) :
                    l \in {EdgeWeights(r) :
                              r \in {EdgeRatios(c) :
                                        c \in {EdgeCross(d) : d \in {EdgeDiffs(v, q)}}}}} :
        TRUE

\* The screen positions as whole pixels.
ScreenOf(v) ==
    <<<<F32ToInt(v[1].x), F32ToInt(v[1].y)>>, <<F32ToInt(v[2].x), F32ToInt(v[2].y)>>,
      <<F32ToInt(v[3].x), F32ToInt(v[3].y)>>>>

\* Draw: perspective divide and viewport transformation of tmp[0 .. 2]
I_Project ==
    /\ ipStage = "project"
    /\ ipTri' = ProjectAll(ipTri, InterpSize, InterpSize, 1)
    /\ ipStage' = "setup"
    /\ UNCHANGED <<ipIn, ipCover, ipDelta, ipYv, ipXv, ipAt, ipFrag>>

\* Vec2 minPt, minPt + Vec2(100, 0), minPt + Vec2(0, 100)
MinPt(b, dx, dy) ==
    <<F32Add(F32Add(F32OfInt(b.minx), F32Half), F32OfInt(dx)),
      F32Add(F32Add(F32OfInt(b.miny), F32Half), F32OfInt(dy))>>

\* RasterizeHalfSpace up to the row loop: v00, v01, v10, xDelta, yDelta, yv.
I_Setup ==
    /\ ipStage = "setup"
    /\ \E b \in {BBox(Rect(0, 0, InterpSize, InterpSize), ScreenOf(ipTri))} :
       \E v00 \in {Interpolate(ipTri, MinPt(b, 0, 0))},
          v01 \in {Interpolate(ipTri, MinPt(b, 100, 0))},
          v10 \in {Interpolate(ipTri, MinPt(b, 0, 100))} :
          /\ ipDelta' = [x |-> VScale(VSub(v01, v00), F32Hundredth),
                         y |-> VScale(VSub(v10, v00), F32Hundredth),
                         minx |-> b.minx, maxx |-> b.maxx, maxy |-> b.maxy]
          /\ ipYv' = v00
          /\ ipAt' = <<b.minx, b.miny>>
    /\ ipCover' = HalfSpaceFragments(Rect(0, 0, InterpSize, InterpSize), ScreenOf(ipTri),
                                     "None")
    /\ ipStage' = "row"
    /\ UNCHANGED <<ipIn, ipTri, ipXv, ipFrag>>

\* The first loop of a row: to the first visible pixel, where
\* xv = yv + xDelta * (float)(x - minx); a row without one ends with
\* yv += yDelta.
I_Row ==
    /\ ipStage = "row"
    /\ LET y == ipAt[2]
           xs == {x \in ipDelta.minx .. (ipDelta.maxx - 1) : <<x, y>> \in ipCover}
       IN  IF y >= ipDelta.maxy
              THEN ipStage' = "done" /\ UNCHANGED <<ipYv, ipXv, ipAt>>
           ELSE IF xs = {}
              THEN /\ ipYv' = VAdd(ipYv, ipDelta.y)
                   /\ ipAt' = <<ipDelta.minx, y + 1>>
                   /\ UNCHANGED <<ipStage, ipXv>>
           ELSE \E x \in xs :
                   /\ \A x2 \in xs : x <= x2
                   /\ ipXv' = VAdd(ipYv, VScale(ipDelta.x, F32OfInt(x - ipDelta.minx)))
                   /\ ipAt' = <<x, y>>
                   /\ ipStage' = "pixel"
                   /\ UNCHANGED ipYv
    /\ UNCHANGED <<ipIn, ipTri, ipCover, ipDelta, ipFrag>>

\* The second loop of a row: a visible pixel passes the test against the
\* cleared depth buffer, Vertex frag = xv / xv.position.w goes to
\* ProcessPixel, and xv += xDelta; the first pixel that is not visible ends
\* the row with yv += yDelta.
I_Pixel ==
    /\ ipStage = "pixel"
    /\ IF ipAt[1] < ipDelta.maxx /\ ipAt \in ipCover
          THEN /\ ipFrag' = [x |-> ipAt[1], y |-> ipAt[2], frag |-> VDiv(ipXv, ipXv.w)]
               /\ ipXv' = VAdd(ipXv, ipDelta.x)
               /\ ipAt' = <<ipAt[1] + 1, ipAt[2]>>
               /\ UNCHANGED <<ipStage, ipYv>>
          ELSE /\ ipYv' = VAdd(ipYv, ipDelta.y)
               /\ ipAt' = <<ipDelta.minx, ipAt[2] + 1>>
               /\ ipStage' = "row"
               /\ UNCHANGED <<ipXv, ipFrag>>
    /\ UNCHANGED <<ipIn, ipTri, ipCover, ipDelta>>

\* The clip-space vertex that lands on the corner (cx, cy) of normalized
\* device coordinates, on the far plane, with clip w and attribute a.
ClipVertex(cx, cy, w, a) ==
    Vertex(F32OfInt(cx * w), F32OfInt(cy * w), F32OfInt(w), F32OfInt(w), F32OfInt(a))

InterpWs == {1, 2, 4}
InterpAttrs == {0, 1, 2}

InterpInit ==
    /\ ipIn \in [w : InterpWs \X InterpWs \X InterpWs,
                 a : InterpAttrs \X InterpAttrs \X InterpAttrs]
    /\ ipTri = <<ClipVertex(-1, 1, ipIn.w[1], ipIn.a[1]),
                 ClipVertex(1, 1, ipIn.w[2], ipIn.a[2]),
                 ClipVertex(-1, -1, ipIn.w[3], ipIn.a[3])>>
    /\ ipStage = "project"
    /\ ipCover = {}
    /\ ipDelta = Unset
    /\ ipYv = Unset
    /\ ipXv = Unset
    /\ ipAt = <<0, 0>>
    /\ ipFrag = Unset

InterpNext == I_Project \/ I_Setup \/ I_Row \/ I_Pixel

InterpOff ==
    /\ ipIn = Unset /\ ipTri = <<>> /\ ipStage = "off" /\ ipCover = {}
    /\ ipDelta = Unset /\ ipYv = Unset /\ ipXv = Unset /\ ipAt = <<0, 0>>
    /\ ipFrag = Unset

(***************************************************************************)
(* RasterizeHalfSpaceMSAA on one row of the bounding box: the entry scan,  *)
(* then coverage, depth test, one ProcessPixel and the sample writes of    *)
(* each pixel up to maxx (specification RowSpec).  The coverage bits of a  *)
(* pixel are what the edge functions give at its four sample points; a row *)
(* takes them from RowMasks, rows with a gap included, and the buffers     *)
(* hold what Clear and an earlier triangle left.                           *)
(***************************************************************************)

MaxRowWidth == 3

RowPixels == 0 .. (MaxRowWidth - 1)

\* The second loop leaves the row at the first uncovered pixel.
Mut_NextInRow(coverage, x, maxx) == IF coverage = {} THEN maxx ELSE x + 1

\* for( ; x < maxx; ++x) with the break of the else branch commented out
NextInRow(coverage, x, maxx) == x + 1

\* Rasterize hands the rasterizer the next triangle of the draw list.
MR_Begin(cov, w, c) ==
    /\ mrStage = "idle"
    /\ mrTri = Unset
    /\ mrTri' = [coverage |-> cov, w |-> w, color |-> c]
    /\ mrBefore' = [color |-> mrColor, depth |-> mrDepth]
    /\ mrShaded' = [x \in RowPixels |-> 0]
    /\ mrDiscard' = [x \in RowPixels |-> FALSE]
    /\ mrX' = 0
    /\ mrPtr' = 0
    /\ mrStage' = "entry"
    /\ UNCHANGED <<mrColor, mrDepth>>

\* The first loop: to the first pixel with a coverage bit, where
\* colorBuffer and depthBuffer are pointed at the pixel's samples.
MR_Entry ==
    /\ mrStage = "entry"
    /\ IF mrX >= MaxRowWidth
          THEN mrStage' = "idle" /\ UNCHANGED <<mrX, mrPtr>>
       ELSE IF mrTri.coverage[mrX] # {}
          THEN mrStage' = "pixels" /\ mrPtr' = mrX /\ UNCHANGED mrX
       ELSE mrX' = mrX + 1 /\ UNCHANGED <<mrStage, mrPtr>>
    /\ UNCHANGED <<mrTri, mrColor, mrDepth, mrShaded, mrDiscard, mrBefore>>

\* One turn of the second loop.
MR_Pixel(discard) ==
    /\ mrStage = "pixels"
    /\ IF mrX >= MaxRowWidth
          THEN /\ mrStage' = "idle"
               /\ discard = FALSE
               /\ UNCHANGED <<mrX, mrPtr, mrColor, mrDepth, mrShaded, mrDiscard>>
       ELSE \E fill \in {FillMask(mrTri.coverage[mrX],
                                  [i \in 1 .. SAMPLE_COUNT |-> mrTri.w], mrDepth[mrPtr])} :
               /\ IF fill # {}
                     THEN /\ mrShaded' = [mrShaded EXCEPT ![mrX] = @ + 1]
                          /\ mrDiscard' = [mrDiscard EXCEPT ![mrX] = discard]
                          /\ mrColor' = [mrColor EXCEPT ![mrPtr] =
                                [i \in 1 .. SAMPLE_COUNT |->
                                    IF i \in WriteSamples(fill, discard) THEN mrTri.color
                                    ELSE @[i]]]
                          /\ mrDepth' = [mrDepth EXCEPT ![mrPtr] =
                                [i \in 1 .. SAMPLE_COUNT |->
                                    IF i \in WriteSamples(fill, discard) THEN mrTri.w
                                    ELSE @[i]]]
                     ELSE /\ discard = FALSE
                          /\ UNCHANGED <<mrShaded, mrDiscard, mrColor, mrDepth>>
               /\ mrX' = NextInRow(mrTri.coverage[mrX], mrX, MaxRowWidth)
               /\ mrPtr' = mrPtr + 1
               /\ UNCHANGED mrStage
    /\ UNCHANGED <<mrTri, mrBefore>>

\* The coverage masks of a pixel: none, two, three or all four samples.
RowMasks == {{}, {1, 2}, {2, 3, 4}, 1 .. SAMPLE_COUNT}

\* The samples of a pixel after Clear, and after an earlier triangle of depth
\* MaxDepth - 1 and color ColorA that covered the samples 1 and 2.
RowSamples ==
    {[color |-> [i \in 1 .. SAMPLE_COUNT |-> ClearColorValue],
      depth |-> [i \in 1 .. SAMPLE_COUNT |-> 0]],
     [color |-> [i \in 1 .. SAMPLE_COUNT |-> IF i <= 2 THEN ColorA ELSE ClearColorValue],
      depth |-> [i \in 1 .. SAMPLE_COUNT |-> IF i <= 2 THEN MaxDepth - 1 ELSE 0]]}

RowInit ==
    /\ mrTri = Unset
    /\ \E row \in [RowPixels -> RowSamples] :
          /\ mrColor = [x \in RowPixels |-> row[x].color]
          /\ mrDepth = [x \in RowPixels |-> row[x].depth]
    /\ mrStage = "idle"
    /\ mrX = 0
    /\ mrPtr = 0
    /\ mrShaded = [x \in RowPixels |-> 0]
    /\ mrDiscard = [x \in RowPixels |-> FALSE]
    /\ mrBefore = Unset

RowNext ==
    \/ \E cov \in [RowPixels -> RowMasks], w \in 1 .. MaxDepth : MR_Begin(cov, w, ColorB)
    \/ MR_Entry
    \/ \E discard \in BOOLEAN : MR_Pixel(discard)

RowOff ==
    /\ mrTri = Unset /\ mrColor = <<>> /\ mrDepth = <<>> /\ mrStage = "off"
    /\ mrX = 0 /\ mrPtr = 0 /\ mrShaded = <<>> /\ mrDiscard = <<>>
    /\ mrBefore = Unset

(***************************************************************************)
(* ResolveSSAA2X, ResolveSSAA4X and ResolveMSAA4X on one 8-bit channel of  *)
(* the samples of one output pixel (specification ResolveSpec).            *)
(***************************************************************************)

\* The number of samples a pass averages into one output pixel.
SamplesOf(mode) == IF mode = "SSAA_4X" THEN 16 ELSE 4

\* One turn of the pass's while(count--) loop.
RS_Resolve ==
    /\ rsOut = Unset
    /\ rsOut' = [value |-> Resolved(rsBlock, 0, SamplesOf(rsMode))]
    /\ UNCHANGED <<rsMode, rsBlock>>

\* Channel values at both ends of the range and next to each other.
ChannelValues == {0, 1, 2, 255}

\* The blocks of n samples: every block of ChannelValues for the four-sample
\* passes, k samples of one value followed by n - k of another for sixteen.
SampleBlocks(n) ==
    IF n = 4 THEN [0 .. 3 -> ChannelValues]
    ELSE {[o \in 0 .. (n - 1) |-> IF o < k THEN a ELSE b] :
             k \in 0 .. n, a \in ChannelValues, b \in ChannelValues}

ResolveInit ==
    /\ rsMode \in {"SSAA_2X", "SSAA_4X", "MSAA_4X"}
    /\ rsBlock \in SampleBlocks(SamplesOf(rsMode))
    /\ rsOut = Unset

ResolveNext == RS_Resolve

ResolveOff == rsMode = "Off" /\ rsBlock = <<>> /\ rsOut = Unset

(***************************************************************************)
(* Texture::GetPoint and Texture::GetBilinear on the level chosen by       *)
(* RenderingContext::CalcMipLevel (specification SampleSpec).  A texel is  *)
(* named by its index in the allocation, coordinates are in eighths of the *)
(* texture and weights in 64ths, which the floats of the source hold       *)
(* exactly for the sizes used here.                                        *)
(***************************************************************************)

MaxSampleSize == 3

\* The levels of a texture of w by h texels, each with its first index.
RECURSIVE MipChain(_, _, _)
MipChain(w, h, first) ==
    <<[pixels |-> first, width |-> w, height |-> h]>>
        \o (IF w = 1 /\ h = 1 THEN <<>> ELSE MipChain(Halve(w), Halve(h), first + w * h))

\* (int)x of a float holding n / d
TruncDiv(n, d) == IF n >= 0 THEN n \div d ELSE -((-n) \div d)

\* return Math::Clamp(mipLevel + mipBias, 0.0f, (float)(mipCount - 1)), in quarters
CalcMipLevel(raw4, count) == Clamp(raw4, 0, 4 * (count - 1))

\* Mipmap& mm = _mipmaps[(int)mipLevel]
LevelOf(mipLevel4) == TruncDiv(mipLevel4, 4)

\* int ix = Math::Clamp((int)x, 0, map_w - 1) with x = uv.x * (float)map_w
TexelIndex(u8, map_w) == Clamp(TruncDiv(u8 * map_w, 8), 0, map_w - 1)

\* Texture::GetPoint
GetPoint(mips, u8, v8, mipLevel4) ==
    LET mm == mips[LevelOf(mipLevel4) + 1]
        ix == TexelIndex(u8, mm.width)
        iy == TexelIndex(v8, mm.height)
    IN  [level |-> LevelOf(mipLevel4),
         taps |-> <<mm.pixels + iy * mm.width + ix>>,
         weights |-> <<64>>]

\* Texture::GetBilinear
GetBilinear(mips, u8, v8, mipLevel4) ==
    LET mm == mips[LevelOf(mipLevel4) + 1]
        ix == TexelIndex(u8, mm.width)
        iy == TexelIndex(v8, mm.height)
        xoff == IF ix < mm.width - 1 THEN 1 ELSE 0
        yoff == IF iy < mm.height - 1 THEN 1 ELSE 0
        p00 == mm.pixels + iy * mm.width + ix
        p01 == p00 + xoff
        p10 == p00 + mm.width * yoff
        p11 == p10 + xoff
        u1 == u8 * mm.width - 8 * ix
        u0 == 8 - u1
        v1 == v8 * mm.height - 8 * iy
        v0 == 8 - v1
    IN  [level |-> LevelOf(mipLevel4),
         taps |-> <<p00, p01, p10, p11>>,
         weights |-> <<u0 * v0, u1 * v0, u0 * v1, u1 * v1>>]

\* The level the rasterizer hands to the fragment stage:
\* (mipCount > 1) ? CalcMipLevel(...) : 0
FragmentMipLevel(mips) ==
    IF Len(mips) > 1 THEN CalcMipLevel(tsCall.raw4, Len(mips)) ELSE 0

\* case FilterMode::Point: return GetPoint(uv, mipLevel)
TS_GetPoint ==
    /\ tsOut = Unset /\ tsCall.filter = "Point"
    /\ LET mips == MipChain(tsTex[1], tsTex[2], 0)
       IN  tsOut' = GetPoint(mips, tsCall.u8, tsCall.v8, FragmentMipLevel(mips))
    /\ UNCHANGED <<tsTex, tsCall>>

\* case FilterMode::Bilinear: return GetBilinear(uv, mipLevel)
TS_GetBilinear ==
    /\ tsOut = Unset /\ tsCall.filter = "Bilinear"
    /\ LET mips == MipChain(tsTex[1], tsTex[2], 0)
       IN  tsOut' = GetBilinear(mips, tsCall.u8, tsCall.v8, FragmentMipLevel(mips))
    /\ UNCHANGED <<tsTex, tsCall>>

\* UV coordinates in eighths: below 0, inside, on the edges and above 1.
SampleUVs == {-12, -8, -4, -1, 0, 1, 3, 4, 5, 7, 8, 9, 12, 16}

\* mipLevel + mipBias before the clamp, in quarters: below 0, the levels of
\* the largest texture, and above them.
SampleLevels == -8 .. 16

SampleInit ==
    /\ tsTex \in (1 .. MaxSampleSize) \X (1 .. MaxSampleSize)
    /\ tsCall \in [filter : {"Point", "Bilinear"}, u8 : SampleUVs, v8 : SampleUVs,
                   raw4 : SampleLevels]
    /\ tsOut = Unset

SampleNext == TS_GetPoint \/ TS_GetBilinear

SampleOff == tsTex = <<0, 0>> /\ tsCall = Unset /\ tsOut = Unset

(***************************************************************************)
(* RenderThread under a client that may call Execute whenever it likes,    *)
(* busy worker or not (specification MailSpec).  The workers are those of  *)
(* RenderThread::Run above; the threads are not destroyed.                 *)
(***************************************************************************)

MaxExecutes == 3

\* The rect of the n-th call: every call hands over a different one.
CallRect(n) == Rect(0, n, 1, 1)

\* _renderThreads[w]->Execute(this, rect)
ML_Execute(w) ==
    /\ mpc = "idle"
    /\ mlCalls < MaxExecutes
    /\ Execute(w, CallRect(mlCalls))
    /\ mlCalls' = mlCalls + 1
    /\ mlWho' = w
    /\ UNCHANGED <<mpc, mi, nThreads, rW, rH, frames, mlRan>>

\* One step of Run; if(task) { ... } is entered with the task swapped out.
ML_Worker(w) ==
    /\ WorkerStep(w)
    /\ mlRan' = IF wpc[w] = "rasterize"
                   THEN [mlRan EXCEPT ![w] = Append(@, wtask[w].rect)]
                   ELSE mlRan
    /\ UNCHANGED <<mlCalls, mlWho>>

\* A spurious wake-up of _task_cv.wait.
ML_SpuriousWake(w) == W_SpuriousWake(w) /\ UNCHANGED mailVars

MailInit ==
    /\ ThreadInit
    /\ mlCalls = 0
    /\ mlWho = 0
    /\ mlRan = [w \in 0 .. (nThreads - 1) |-> <<>>]

MailNext ==
    \/ \E w \in Workers : ML_Execute(w)
    \/ \E w \in Workers : ML_Worker(w)
    \/ \E w \in Workers : ML_SpuriousWake(w)

MailOff == mlCalls = 0 /\ mlWho = 0 /\ mlRan = <<>>

(***************************************************************************)
(* Texture::Texture copies each level out of tmp and calls MipDown on tmp  *)
(* to make the next one (specification DownSpec).  One 8-bit channel is    *)
(* kept per texel: MipDown treats r, g, b and a alike.                     *)
(***************************************************************************)

MaxMipSide == 4

\* The destination texels MipDown(pixels, w, h) computes.
DestCount(w, h) ==
    IF w > 1 /\ h > 1 THEN (w \div 2) * (h \div 2)
    ELSE IF w > 1 THEN w \div 2
    ELSE IF h > 1 THEN h \div 2
    ELSE 0

\* The indices the n-th turn of MipDown's loops reads.
DownReads(w, h, n) ==
    IF w > 1 /\ h > 1
       THEN LET x == n % (w \div 2)
                y == n \div (w \div 2)
                p == (y * 2) * w + (x * 2)
            IN  <<p, p + 1, p + 1 + (w - 1), p + 1 + (w - 1) + 1>>
       ELSE <<n * 2, n * 2 + 1>>

\* The index the n-th turn stores to: pixels[y * destWidth + x],
\* pixels[destWidth + x] or pixels[destHeight + y].
DownDest(w, h, n) ==
    IF w > 1 /\ h > 1 THEN n
    ELSE IF w > 1 THEN (w \div 2) + n
    ELSE (h \div 2) + n

\* Color32(r >> 2, ...) and Color32(r >> 1, ...)
DownValue(px, reads) ==
    IF Len(reads) = 4
       THEN (px[reads[1]] + px[reads[2]] + px[reads[3]] + px[reads[4]]) \div 4
       ELSE (px[reads[1]] + px[reads[2]]) \div 2

\* for(auto& mip : _mipmaps): pPixels[i] = tmp[i] for the level's count
\* texels, then MipDown(tmp.get(), mip.width, mip.height) is entered.
MD_Copy ==
    /\ mdStage = "copy"
    /\ mdLevels' = Append(mdLevels,
                          [width |-> mdW, height |-> mdH,
                           pixels |-> [i \in 0 .. (mdW * mdH - 1) |-> mdTmp[i]]])
    /\ mdStage' = "down"
    /\ mdPos' = 0
    /\ mdWritten' = {}
    /\ UNCHANGED <<mdTmp, mdW, mdH, mdStale>>

\* MipDown: one turn of the loop over the destination texels.
MD_Texel ==
    /\ mdStage = "down"
    /\ mdPos < DestCount(mdW, mdH)
    /\ LET reads == DownReads(mdW, mdH, mdPos)
           dest == DownDest(mdW, mdH, mdPos)
       IN  /\ mdTmp' = [mdTmp EXCEPT ![dest] = DownValue(mdTmp, reads)]
           /\ mdWritten' = mdWritten \cup {dest}
           /\ mdStale' = (mdStale \/ \E i \in 1 .. Len(reads) : reads[i] \in mdWritten)
    /\ mdPos' = mdPos + 1
    /\ UNCHANGED <<mdW, mdH, mdLevels, mdStage>>

\* MipDown returns; the next mip of _mipmaps has the halved size, and the
\* loop ends after the level of 1 x 1.
MD_Return ==
    /\ mdStage = "down"
    /\ mdPos = DestCount(mdW, mdH)
    /\ IF mdW = 1 /\ mdH = 1
          THEN mdStage' = "done" /\ UNCHANGED <<mdW, mdH>>
          ELSE mdStage' = "copy" /\ mdW' = Halve(mdW) /\ mdH' = Halve(mdH)
    /\ UNCHANGED <<mdTmp, mdLevels, mdPos, mdWritten, mdStale>>

\* The images loaded: texel i holds (a + b * i) mod 256.
ImageOffsets == {0, 3, 255}
ImageSteps == {1, 7, 64}

DownInit ==
    /\ mdW \in 1 .. MaxMipSide
    /\ mdH \in 1 .. MaxMipSide
    /\ \E a \in ImageOffsets, b \in ImageSteps :
          mdTmp = [i \in 0 .. (mdW * mdH - 1) |-> (a + b * i) % 256]
    /\ mdLevels = <<>>
    /\ mdStage = "copy"
    /\ mdPos = 0
    /\ mdWritten = {}
    /\ mdStale = FALSE

DownNext == MD_Copy \/ MD_Texel \/ MD_Return

DownOff ==
    /\ mdTmp = <<>> /\ mdW = 0 /\ mdH = 0 /\ mdLevels = <<>> /\ mdStage = "off"
    /\ mdPos = 0 /\ mdWritten = {} /\ mdStale = FALSE

(***************************************************************************)
(* AlignedAlloc and AlignedFree (specification AllocSpec).  Addresses are  *)
(* byte addresses; malloc aligns its blocks to two pointers.               *)
(***************************************************************************)

MaxAllocSize == 4
MaxMallocSlot == 4

\* x & ~(alignment - 1) for a power of two alignment
AlignDown(x, alignment) == x - (x % alignment)

\* void *mem = malloc(sizeof(void*) + (alignment - 1) + size);
\* void **ptr = (void**)((uintptr_t)((char*)mem + sizeof(void*) + alignment) & ~(alignment - 1));
\* ptr[-1] = mem; return ptr;
AM_Alloc ==
    /\ amBlock = 0
    /\ amBlock' = amWord + (amAlign - 1) + amSize
    /\ amPtr' = AlignDown(amMem + amWord + amAlign, amAlign)
    /\ amSlot' = [at |-> AlignDown(amMem + amWord + amAlign, amAlign) - amWord,
                  value |-> amMem]
    /\ UNCHANGED <<amWord, amSize, amAlign, amMem, amFreed>>

\* free(((void**)ptr)[-1])
AM_Free ==
    /\ amBlock # 0 /\ amFreed = 0
    /\ amFreed' = (IF amSlot.at = amPtr - amWord THEN amSlot.value ELSE 0)
    /\ UNCHANGED <<amWord, amSize, amAlign, amMem, amBlock, amPtr, amSlot>>

Alignments == {1, 2, 4, 8, 16, 32}

AllocInit ==
    /\ amWord \in {4, 8}
    /\ amSize \in 0 .. MaxAllocSize
    /\ amAlign \in Alignments
    /\ amMem \in {2 * amWord * k : k \in 1 .. MaxMallocSlot}
    /\ amBlock = 0
    /\ amPtr = 0
    /\ amSlot = Unset
    /\ amFreed = 0

AllocNext == AM_Alloc \/ AM_Free

AllocOff ==
    /\ amWord = 0 /\ amSize = 0 /\ amAlign = 0 /\ amMem = 0 /\ amBlock = 0
    /\ amPtr = 0 /\ amSlot = Unset /\ amFreed = 0

LaterOff == PixelOff /\ ClipOff /\ CanSeeOff /\ CameraOff /\ ListOff /\ MipOff /\ OffsetOff /\ InterpOff /\ RowOff /\ ResolveOff /\ SampleOff /\ MailOff /\ DownOff /\ AllocOff

FrameOff ==
    /\ fThreads = 0 /\ fCull = "None" /\ fScene = <<>> /\ fTiles = Rect(0, 0, 0, 0)
    /\ fColor = <<>> /\ fDepth = <<>> /\ fAA = <<>> /\ fMain = "off" /\ fpc = <<>>
    /\ fWrote = <<>> /\ fReadAA = <<>> /\ fFrags = <<>> /\ fFault = FALSE /\ fGarbage = 0

ConfigOff ==
    /\ cWidth = 0 /\ cHeight = 0 /\ cRenderW = 0 /\ cRenderH = 0
    /\ rasterMode = "Halfspace" /\ aaMode = "Off"
    /\ colorBuf = EmptyBuffer /\ depthBuf = EmptyBuffer /\ aaBuf = EmptyBuffer
    /\ crashed = FALSE /\ cLast = [op |-> "none"]

DepthOff == sDepth = 0 /\ sColor = 0 /\ sFrags = <<>> /\ sValid = FALSE

ThreadOff ==
    /\ nThreads = 0 /\ mpc = "off" /\ mi = 0 /\ rW = 0 /\ rH = 0 /\ frames = 0
    /\ posted = <<>> /\ wpc = <<>> /\ mailbox = <<>> /\ wtask = <<>>
    /\ busy = <<>> /\ run = <<>> /\ spn = <<>> /\ doneStamp = <<>>

(***************************************************************************)
(* Specifications.                                                         *)
(***************************************************************************)

vars == <<threadVars, depthVars, configVars, frameVars, laterVars>>

Init == ThreadInit /\ DepthOff /\ ConfigOff /\ FrameOff /\ LaterOff

Next == ThreadNext /\ UNCHANGED <<depthVars, configVars, frameVars, laterVars>>

Spec == Init /\ [][Next]_vars

\* The scheduler runs every thread that can take a step, and a thread spinning
\* in spinlock::lock gets the lock if it is free again and again; a spurious
\* wake-up is allowed and never owed.
FairSpec ==
    /\ Init /\ [][Next]_vars
    /\ SF_vars(MainStep /\ UNCHANGED <<depthVars, configVars, frameVars, laterVars>>)
    /\ \A w \in 0 .. (MaxThreads - 1) :
          WF_vars(w \in Workers /\ WorkerStep(w)
                     /\ UNCHANGED <<depthVars, configVars, frameVars, laterVars>>)

DepthSpecInit == DepthInit /\ ThreadOff /\ ConfigOff /\ FrameOff /\ LaterOff

DepthSpecNext == DepthNext /\ UNCHANGED <<threadVars, configVars, frameVars, laterVars>>

DepthSpec == DepthSpecInit /\ [][DepthSpecNext]_vars

ConfigSpecInit == ConfigInit /\ ThreadOff /\ DepthOff /\ FrameOff /\ LaterOff

ConfigSpecNext == ConfigNext /\ UNCHANGED <<threadVars, depthVars, frameVars, laterVars>>

ConfigSpec == ConfigSpecInit /\ [][ConfigSpecNext]_vars

FrameSpecInit == FrameInit /\ ThreadOff /\ DepthOff /\ LaterOff

FrameSpecNext == FrameNext /\ UNCHANGED <<threadVars, depthVars, configVars, laterVars>>

FrameSpec == FrameSpecInit /\ [][FrameSpecNext]_vars

DropSpecInit == DropInit /\ ThreadOff /\ DepthOff /\ LaterOff

DropSpec == DropSpecInit /\ [][FrameSpecNext]_vars

PixelSpecInit ==
    PixelInit /\ ThreadOff /\ DepthOff /\ ConfigOff /\ FrameOff
    /\ ClipOff /\ CanSeeOff /\ CameraOff /\ ListOff /\ MipOff /\ OffsetOff
    /\ InterpOff /\ RowOff /\ ResolveOff /\ SampleOff /\ MailOff /\ DownOff
    /\ AllocOff

PixelSpecNext ==
    PixelNext
    /\ UNCHANGED <<threadVars, depthVars, configVars, frameVars, clipVars,
                   canSeeVars, cameraVars, listVars, mipVars, ofsVars,
                   interpVars, rowVars, resolveVars, sampleVars, mailVars,
                   downVars, allocVars>>

PixelSpec == PixelSpecInit /\ [][PixelSpecNext]_vars

ClipSpecInit ==
    ClipInit /\ ThreadOff /\ DepthOff /\ ConfigOff /\ FrameOff
    /\ PixelOff /\ CanSeeOff /\ CameraOff /\ ListOff /\ MipOff /\ OffsetOff
    /\ InterpOff /\ RowOff /\ ResolveOff /\ SampleOff /\ MailOff /\ DownOff
    /\ AllocOff

ClipSpecNext ==
    ClipNext
    /\ UNCHANGED <<threadVars, depthVars, configVars, frameVars, pixelVars,
                   canSeeVars, cameraVars, listVars, mipVars, ofsVars,
                   interpVars, rowVars, resolveVars, sampleVars, mailVars,
                   downVars, allocVars>>

ClipSpec == ClipSpecInit /\ [][ClipSpecNext]_vars

CanSeeSpecInit ==
    CanSeeInit /\ ThreadOff /\ DepthOff /\ ConfigOff /\ FrameOff
    /\ PixelOff /\ ClipOff /\ CameraOff /\ ListOff /\ MipOff /\ OffsetOff
    /\ InterpOff /\ RowOff /\ ResolveOff /\ SampleOff /\ MailOff /\ DownOff
    /\ AllocOff

CanSeeSpecNext ==
    CanSeeNext
    /\ UNCHANGED <<threadVars, depthVars, configVars, frameVars, pixelVars,
                   clipVars, cameraVars, listVars, mipVars, ofsVars,
                   interpVars, rowVars, resolveVars, sampleVars, mailVars,
                   downVars, allocVars>>

CanSeeSpec == CanSeeSpecInit /\ [][CanSeeSpecNext]_vars

CameraSpecInit ==
    CameraInit /\ ThreadOff /\ DepthOff /\ ConfigOff /\ FrameOff
    /\ PixelOff /\ ClipOff /\ CanSeeOff /\ ListOff /\ MipOff /\ OffsetOff
    /\ InterpOff /\ RowOff /\ ResolveOff /\ SampleOff /\ MailOff /\ DownOff
    /\ AllocOff

CameraSpecNext ==
    CameraNext
    /\ UNCHANGED <<threadVars, depthVars, configVars, frameVars, pixelVars,
                   clipVars, canSeeVars, listVars, mipVars, ofsVars,
                   interpVars, rowVars, resolveVars, sampleVars, mailVars,
                   downVars, allocVars>>

CameraSpec == CameraSpecInit /\ [][CameraSpecNext]_vars

ListSpecInit ==
    ListInit /\ ThreadOff /\ DepthOff /\ ConfigOff /\ FrameOff
    /\ PixelOff /\ ClipOff /\ CanSeeOff /\ CameraOff /\ MipOff /\ OffsetOff
    /\ InterpOff /\ RowOff /\ ResolveOff /\ SampleOff /\ MailOff /\ DownOff
    /\ AllocOff

ListSpecNext ==
    ListNext
    /\ UNCHANGED <<threadVars, depthVars, configVars, frameVars, pixelVars,
                   clipVars, canSeeVars, cameraVars, mipVars, ofsVars,
                   interpVars, rowVars, resolveVars, sampleVars, mailVars,
                   downVars, allocVars>>

ListSpec == ListSpecInit /\ [][ListSpecNext]_vars

MipSpecInit ==
    MipInit /\ ThreadOff /\ DepthOff /\ ConfigOff /\ FrameOff
    /\ PixelOff /\ ClipOff /\ CanSeeOff /\ CameraOff /\ ListOff /\ OffsetOff
    /\ InterpOff /\ RowOff /\ ResolveOff /\ SampleOff /\ MailOff /\ DownOff
    /\ AllocOff

MipSpecNext ==
    MipNext
    /\ UNCHANGED <<threadVars, depthVars, configVars, frameVars, pixelVars,
                   clipVars, canSeeVars, cameraVars, listVars, ofsVars,
                   interpVars, rowVars, resolveVars, sampleVars, mailVars,
                   downVars, allocVars>>

MipSpec == MipSpecInit /\ [][MipSpecNext]_vars

OffsetSpecInit ==
    OffsetInit /\ ThreadOff /\ DepthOff /\ ConfigOff /\ FrameOff
    /\ PixelOff /\ ClipOff /\ CanSeeOff /\ CameraOff /\ ListOff /\ MipOff
    /\ InterpOff /\ RowOff /\ ResolveOff /\ SampleOff /\ MailOff /\ DownOff
    /\ AllocOff

OffsetSpecNext ==
    OffsetNext
    /\ UNCHANGED <<threadVars, depthVars, configVars, frameVars, pixelVars,
                   clipVars, canSeeVars, cameraVars, listVars, mipVars,
                   interpVars, rowVars, resolveVars, sampleVars, mailVars,
                   downVars, allocVars>>

OffsetSpec == OffsetSpecInit /\ [][OffsetSpecNext]_vars

InterpSpecInit ==
    InterpInit /\ ThreadOff /\ DepthOff /\ ConfigOff /\ FrameOff
    /\ PixelOff /\ ClipOff /\ CanSeeOff /\ CameraOff /\ ListOff /\ MipOff
    /\ OffsetOff /\ RowOff /\ ResolveOff /\ SampleOff /\ MailOff /\ DownOff
    /\ AllocOff

InterpSpecNext ==
    InterpNext
    /\ UNCHANGED <<threadVars, depthVars, configVars, frameVars, pixelVars,
                   clipVars, canSeeVars, cameraVars, listVars, mipVars,
                   ofsVars, rowVars, resolveVars, sampleVars, mailVars,
                   downVars, allocVars>>

InterpSpec == InterpSpecInit /\ [][InterpSpecNext]_vars

RowSpecInit ==
    RowInit /\ ThreadOff /\ DepthOff /\ ConfigOff /\ FrameOff
    /\ PixelOff /\ ClipOff /\ CanSeeOff /\ CameraOff /\ ListOff /\ MipOff
    /\ OffsetOff /\ InterpOff /\ ResolveOff /\ SampleOff /\ MailOff
    /\ DownOff /\ AllocOff

RowSpecNext ==
    RowNext
    /\ UNCHANGED <<threadVars, depthVars, configVars, frameVars, pixelVars,
                   clipVars, canSeeVars, cameraVars, listVars, mipVars,
                   ofsVars, interpVars, resolveVars, sampleVars, mailVars,
                   downVars, allocVars>>

RowSpec == RowSpecInit /\ [][RowSpecNext]_vars

ResolveSpecInit ==
    ResolveInit /\ ThreadOff /\ DepthOff /\ ConfigOff /\ FrameOff
    /\ PixelOff /\ ClipOff /\ CanSeeOff /\ CameraOff /\ ListOff /\ MipOff
    /\ OffsetOff /\ InterpOff /\ RowOff /\ SampleOff /\ MailOff /\ DownOff
    /\ AllocOff

ResolveSpecNext ==
    ResolveNext
    /\ UNCHANGED <<threadVars, depthVars, configVars, frameVars, pixelVars,
                   clipVars, canSeeVars, cameraVars, listVars, mipVars,
                   ofsVars, interpVars, rowVars, sampleVars, mailVars,
                   downVars, allocVars>>

ResolveSpec == ResolveSpecInit /\ [][ResolveSpecNext]_vars

SampleSpecInit ==
    SampleInit /\ ThreadOff /\ DepthOff /\ ConfigOff /\ FrameOff
    /\ PixelOff /\ ClipOff /\ CanSeeOff /\ CameraOff /\ ListOff /\ MipOff
    /\ OffsetOff /\ InterpOff /\ RowOff /\ ResolveOff /\ MailOff /\ DownOff
    /\ AllocOff

SampleSpecNext ==
    SampleNext
    /\ UNCHANGED <<threadVars, depthVars, configVars, frameVars, pixelVars,
                   clipVars, canSeeVars, cameraVars, listVars, mipVars,
                   ofsVars, interpVars, rowVars, resolveVars, mailVars,
                   downVars, allocVars>>

SampleSpec == SampleSpecInit /\ [][SampleSpecNext]_vars

MailSpecInit ==
    MailInit /\ DepthOff /\ ConfigOff /\ FrameOff
    /\ PixelOff /\ ClipOff /\ CanSeeOff /\ CameraOff /\ ListOff /\ MipOff
    /\ OffsetOff /\ InterpOff /\ RowOff /\ ResolveOff /\ SampleOff /\ DownOff
    /\ AllocOff

MailSpecNext ==
    MailNext
    /\ UNCHANGED <<depthVars, configVars, frameVars, pixelVars,
                   clipVars, canSeeVars, cameraVars, listVars, mipVars,
                   ofsVars, interpVars, rowVars, resolveVars, sampleVars,
                   downVars, allocVars>>

MailSpec == MailSpecInit /\ [][MailSpecNext]_vars

DownSpecInit ==
    DownInit /\ ThreadOff /\ DepthOff /\ ConfigOff /\ FrameOff
    /\ PixelOff /\ ClipOff /\ CanSeeOff /\ CameraOff /\ ListOff /\ MipOff
    /\ OffsetOff /\ InterpOff /\ RowOff /\ ResolveOff /\ SampleOff /\ MailOff
    /\ AllocOff

DownSpecNext ==
    DownNext
    /\ UNCHANGED <<threadVars, depthVars, configVars, frameVars, pixelVars,
                   clipVars, canSeeVars, cameraVars, listVars, mipVars,
                   ofsVars, interpVars, rowVars, resolveVars, sampleVars,
                   mailVars, allocVars>>

DownSpec == DownSpecInit /\ [][DownSpecNext]_vars

AllocSpecInit ==
    AllocInit /\ ThreadOff /\ DepthOff /\ ConfigOff /\ FrameOff
    /\ PixelOff /\ ClipOff /\ CanSeeOff /\ CameraOff /\ ListOff /\ MipOff
    /\ OffsetOff /\ InterpOff /\ RowOff /\ ResolveOff /\ SampleOff /\ MailOff
    /\ DownOff

AllocSpecNext ==
    AllocNext
    /\ UNCHANGED <<threadVars, depthVars, configVars, frameVars, pixelVars,
                   clipVars, canSeeVars, cameraVars, listVars, mipVars,
                   ofsVars, interpVars, rowVars, resolveVars, sampleVars,
                   mailVars, downVars>>

AllocSpec == AllocSpecInit /\ [][AllocSpecNext]_vars

FairMailSpec ==
    MailSpec /\ \A w \in 0 .. (MaxThreads - 1) : WF_vars(w \in Workers /\ MailSpecNext /\ ML_Worker(w))

(***************************************************************************)
(* Claims about the thread protocol.                                       *)
(***************************************************************************)

InDraw == mpc \in {"geom", "execute", "wait", "waitBlocked", "clear"}

\* The main thread is in the geometry phase or the end-of-frame clear.
MainMutating == mpc \in {"geom", "clear"}

\* The worker is rasterizing or resolving a task.
WorkerExecuting(w) == wpc[w] \in {"rasterize", "resolve"}

\* The Wait of the running Draw on worker w has returned.
WaitReturned(w) == mpc = "clear" \/ (mpc \in {"wait", "waitBlocked"} /\ w < mi)

\* C1: the main thread mutates the vertex list, the draw-call list and the
\* shader arena only while no worker executes or holds a task, and the Wait
\* of a Draw on a worker returns only after that worker has completed the
\* task posted to it in that Draw.
C1_MainMutatesAlone ==
    /\ MainMutating =>
          \A w \in Workers :
              ~WorkerExecuting(w) /\ ~wtask[w].context /\ ~mailbox[w].context
    /\ \A w \in Workers :
          WaitReturned(w) =>
              /\ ~WorkerExecuting(w) /\ ~mailbox[w].context
              /\ doneStamp[w] = frames + 1
              /\ \E k \in 1 .. Len(posted) : posted[k][1] = w

\* The second Draw of a context with two workers reaches its end-of-frame clear.
C1_Witness == mpc = "clear" /\ frames >= 1 /\ nThreads >= 2

\* C4: under fair scheduling every Draw returns, and every pending task is
\* taken and completed, after which the worker is idle again.
C4_DrawReturns ==
    /\ InDraw ~> (mpc = "idle")
    /\ \A w \in 0 .. (MaxThreads - 1) :
          (w \in Workers /\ mailbox[w].context)
              ~> (w \in Workers /\ ~busy[w] /\ doneStamp[w] = frames + 1)

\* The main thread blocks in Wait on a task posted before the worker thread
\* has run for the first time.
C4_Witness ==
    \E w \in Workers : wpc[w] = "start" /\ mailbox[w].context /\ mpc = "waitBlocked"

\* C5: when the destructor waits in join, the worker has left Run or can
\* still take a step of it: it observes _run = false and the join completes.
C5_JoinCompletes ==
    mpc = "dJoin" => (wpc[mi] = "exited" \/ ENABLED WorkerStep(mi))

\* The rows of a rectangle.
Rows(r) == r.y .. (r.y + r.h - 1)

\* C6: the rectangles Draw posts are full-width strips, contiguous from 0,
\* pairwise disjoint, covering exactly [0, H), the first T-1 of height
\* floor(H/T) and the last of height H - (T-1)*floor(H/T), one per worker.
C6_StripsPartition ==
    mpc \in {"wait", "waitBlocked", "clear"} =>
        /\ Len(posted) = nThreads
        /\ \A k \in 1 .. Len(posted) :
              LET r == posted[k][2]
              IN  /\ posted[k][1] = k - 1
                  /\ r.x = 0 /\ r.w = rW /\ r.h >= 0
                  /\ r.y = IF k = 1 THEN 0 ELSE posted[k - 1][2].y + posted[k - 1][2].h
                  /\ r.h = IF k < nThreads THEN rH \div nThreads
                                           ELSE rH - (nThreads - 1) * (rH \div nThreads)
        /\ UNION {Rows(posted[k][2]) : k \in 1 .. Len(posted)} = 0 .. (rH - 1)
        /\ \A k, l \in 1 .. Len(posted) :
              k # l => Rows(posted[k][2]) \cap Rows(posted[l][2]) = {}

\* Two workers share a height that the thread count does not divide.
C6_Witness ==
    /\ mpc = "wait" /\ nThreads = 2 /\ rH = 3
    /\ Len(posted) = 2 /\ posted[2][2].h = 2

(***************************************************************************)
(* Claims about the depth test.                                            *)
(***************************************************************************)

\* The positions, in draw order, of the fragments that were not discarded.
Kept == {k \in 1 .. Len(sFrags) : ~sFrags[k].discard}

\* C7: after a depth clear and any sequence of fragment writes, the stored
\* depth is the largest depth among the fragments not discarded and the
\* stored color is that of the first-drawn fragment of that depth, whatever
\* the draw order.
C7_DepthMonotone ==
    (sValid /\ Kept # {}) =>
        LET best == CHOOSE k \in Kept :
                        \A l \in Kept :
                            \/ sFrags[l].w < sFrags[k].w
                            \/ (sFrags[l].w = sFrags[k].w /\ k <= l)
        IN  sDepth = sFrags[best].w /\ sColor = best

\* A nearer fragment drawn after a farther one, then a tie with the nearer.
C7_Witness ==
    /\ sValid /\ Len(sFrags) = 3
    /\ sFrags[1].w < sFrags[2].w /\ sFrags[3].w = sFrags[2].w
    /\ \A k \in 1 .. 3 : ~sFrags[k].discard
    /\ sColor = 2

(***************************************************************************)
(* Claims about the mode setters.                                          *)
(***************************************************************************)

\* C9: with MSAA_4X paired with Scanline, in whichever order the setters
\* were called, Clear and the rasterizer target the final color buffer at one
\* sample per pixel, within the color and depth buffers, the resolve pass
\* does nothing and no call ends in an error.
C9_MsaaScanlineIsOff ==
    (aaMode = "MSAA_4X" /\ rasterMode = "Scanline" /\ ~crashed) =>
        /\ cLast.op = "Clear" => cLast.target \in {"color", "none"}
        /\ cLast.op = "Draw" =>
              /\ cLast.fn = "RasterizeScanline"
              /\ cLast.target = "color"
              /\ cLast.samples = 1
              /\ cLast.resolve = "none"
              /\ cLast.needed = cWidth * cHeight
              /\ cLast.needed <= BufferSize(colorBuf)
              /\ cLast.needed <= BufferSize(depthBuf)
        /\ cLast.outcome = "returned"
        /\ cRenderW = cWidth /\ cRenderH = cHeight /\ colorBuf.sampleCount = 1

\* A frame is drawn after antiAliasingMode(MSAA_4X) was called in Halfspace
\* mode (the depth buffer has 4 samples) and Scanline was selected afterwards.
C9_Witness ==
    /\ aaMode = "MSAA_4X" /\ rasterMode = "Scanline" /\ ~crashed
    /\ depthBuf.sampleCount = 4 /\ cHeight > 0
    /\ cLast.op = "Draw"

\* C10: when an allocation fails in antiAliasingMode, the failure is reported
\* to the caller and the context is as it was before the call.
C10_OomLeavesPriorState ==
    (cLast.op = "antiAliasingMode" /\ cLast.failed) =>
        (cLast.outcome = "error" /\ Snapshot = cLast.prior)

(***************************************************************************)
(* Claims about a frame.                                                   *)
(***************************************************************************)

\* The number of render rows behind one row of the final color buffer.
RowsPerPixel == IF aaMode = "SSAA_2X" THEN 2 ELSE IF aaMode = "SSAA_4X" THEN 4 ELSE 1

\* The render rows a buffer element holds samples of.
ElementRows(e) ==
    IF e[1] = "color"
       THEN LET py == e[2] \div cWidth
            IN  IF RasterTarget(rasterMode, aaMode) = "color" THEN {py}
                ELSE (py * RowsPerPixel) .. (py * RowsPerPixel + RowsPerPixel - 1)
    ELSE IF RasterFn(rasterMode, aaMode) = "RasterizeHalfSpaceMSAA"
       THEN {(e[2] \div 4) \div cRenderW}
    ELSE IF RowsPerPixel = 1
       THEN {e[2] \div cWidth}
    ELSE LET n == RowsPerPixel
             py == (e[2] \div (n * n)) \div cWidth
             yi == (e[2] % (n * n)) \div n
         IN  {py * n + yi}

\* The AA samples worker w writes.
AAWritten(w) == {e[2] : e \in {f \in fWrote[w] : f[1] = "aa"}}

\* C2: every buffer element a worker writes during its task lies in the
\* worker's own strip, no element is written by two workers, and no worker
\* reads an AA sample that another worker writes.
C2_WorkersStayInStrip ==
    \A w \in FWorkers :
        /\ \A e \in fWrote[w] : ElementRows(e) \subseteq Rows(FStrip(w))
        /\ \A v \in FWorkers \ {w} :
              /\ fWrote[w] \cap fWrote[v] = {}
              /\ fReadAA[w] \cap AAWritten(v) = {}

\* The buffers the frame leaves when one worker renders it.
RECURSIVE RasterizeAll(_, _, _)
RasterizeAll(bufs, rect, k) ==
    IF k > Len(fScene) THEN bufs
    ELSE RasterizeAll(RasterizeInto(bufs, rect, fScene[k]), rect, k + 1)

OneWorkerFrame ==
    LET full == StripRect(0, 1, cRenderW, cRenderH)
        start == ClearInto([color |-> Storage(BufferSize(colorBuf), fGarbage),
                            aa |-> Storage(BufferSize(aaBuf), fGarbage),
                            depth |-> Storage(BufferSize(depthBuf), fGarbage)])
        drawn == RasterizeAll(start, full, 1)
    IN  [color |-> ResolveInto(drawn, full), depth |-> drawn.depth]

\* C3: when Draw returns, the color and depth buffers are those the same
\* frame leaves with one worker, whatever the number of workers and however
\* they interleaved.
C3_SameAsOneWorker ==
    fMain = "done" => (fColor = OneWorkerFrame.color /\ fDepth = OneWorkerFrame.depth)

\* C8: in half-space mode, once every worker has rasterized triangles of one
\* winding that tile a rectangle, each pixel of the rectangle has had exactly
\* one fragment.
C8_OneFragmentPerPixel ==
    ( /\ RasterFn(rasterMode, aaMode) = "RasterizeHalfSpace"
      /\ fTiles.w > 0
      /\ fMain = "wait"
      /\ \A w \in FWorkers : fpc[w].phase \in {"resolve", "done"} )
    => \A x \in fTiles.x .. (fTiles.x + fTiles.w - 1), y \in fTiles.y .. (fTiles.y + fTiles.h - 1) :
          fFrags[<<x, y>>] = 1

(***************************************************************************)
(* Claims about the fragment stage.                                        *)
(***************************************************************************)

\* C11: in every rasterizer, when the fragment stage reports discard for a
\* pixel, no color sample and no depth sample of the pixel is modified: in
\* MSAA mode all 4 samples keep their previous color and depth.
C11_DiscardWritesNothing ==
    (pLast.op = "fragment" /\ pLast.discard) =>
        (pColor = pLast.color /\ pDepth = pLast.depth)

\* The MSAA rasterizer shaded a pixel whose 4 samples all pass the depth
\* test over colors and depths an earlier fragment wrote, and the fragment
\* stage discarded it.
C11_Witness ==
    /\ pLast.op = "fragment" /\ pLast.discard
    /\ pLast.fn = "RasterizeHalfSpaceMSAA"
    /\ pLast.fill = 1 .. SAMPLE_COUNT
    /\ \A i \in 1 .. SAMPLE_COUNT : pLast.depth[i] > 0

(***************************************************************************)
(* Claims about clipping.                                                  *)
(***************************************************************************)

\* The screen position of a vertex in whole pixels.
WholePixel(v) == F32IsInt(v.x) /\ F32IsInt(v.y)
PixelOf(v) == <<F32ToInt(v.x), F32ToInt(v.y)>>

\* The triangle as Draw sees it when no depth plane cuts it: its vertices
\* after the viewport transformation.
ScreenTri == ProjectAll(clIn.tri, clIn.W, clIn.H, 1)

\* The triangle is inside both depth planes and it and its clipped polygon
\* have whole-pixel vertices.
WholeCase ==
    /\ clStage = "done"
    /\ \A i \in 1 .. 3 :
          Inside("near", clIn.tri[i], F32Zero) /\ Inside("far", clIn.tri[i], F32Zero)
    /\ \A i \in 1 .. 3 : WholePixel(ScreenTri[i])
    /\ \A i \in 1 .. Len(clOut) : WholePixel(clOut[i])

\* Twice the edge function of a -> b at the center of pixel q, exactly.
EdgeAtCenter(a, b, q) ==
    (b[1] - a[1]) * (2 * q[2] + 1 - 2 * a[2]) - (b[2] - a[2]) * (2 * q[1] + 1 - 2 * a[1])

\* The center of pixel q lies strictly inside, strictly outside triangle p.
CenterInside(p, q) ==
    \/ \A i \in 1 .. 3 : EdgeAtCenter(p[i], p[(i % 3) + 1], q) > 0
    \/ \A i \in 1 .. 3 : EdgeAtCenter(p[i], p[(i % 3) + 1], q) < 0

CenterOutside(p, q) ==
    /\ \E i \in 1 .. 3 : EdgeAtCenter(p[i], p[(i % 3) + 1], q) > 0
    /\ \E i \in 1 .. 3 : EdgeAtCenter(p[i], p[(i % 3) + 1], q) < 0

\* The fragments the half-space rasterizer generates for the triangles of
\* clOut in a task that spans the viewport, nothing culled.
ClippedFragments ==
    UNION {HalfSpaceFragments(Rect(0, 0, clIn.W, clIn.H),
                              <<PixelOf(clOut[3 * k - 2]), PixelOf(clOut[3 * k - 1]),
                                PixelOf(clOut[3 * k])>>, "None") :
           k \in 1 .. (Len(clOut) \div 3)}

Viewport == (0 .. (clIn.W - 1)) \X (0 .. (clIn.H - 1))

\* C12: for a triangle partly or wholly outside the viewport every fragment
\* has 0 <= x < renderWidth and 0 <= y < renderHeight, and the fragments are
\* the part of the triangle's coverage inside the viewport: every pixel
\* whose center is strictly inside the triangle, none whose center is
\* strictly outside it.
C12_FragmentsAreCoverageInViewport ==
    WholeCase =>
        /\ ClippedFragments \subseteq Viewport
        /\ \A q \in Viewport :
              /\ CenterInside(<<PixelOf(ScreenTri[1]), PixelOf(ScreenTri[2]),
                                 PixelOf(ScreenTri[3])>>, q) => q \in ClippedFragments
              /\ CenterOutside(<<PixelOf(ScreenTri[1]), PixelOf(ScreenTri[2]),
                                  PixelOf(ScreenTri[3])>>, q) => q \notin ClippedFragments

\* C13: the passes never hold more than 9 vertices, a polygon of n >= 3
\* vertices is appended as the n-2 triangles (v0, v_i, v_i+1), and one of
\* fewer than 3 vertices appends nothing.
C13_NineVerticesAndFan ==
    /\ clStage # "overrun"
    /\ Len(clVerts) <= WorkArraySize
    /\ clStage = "skipped" => (Len(clVerts) < 3 /\ clOut = <<>>)
    /\ clStage \in {"project", "fan", "done"} => Len(clVerts) >= 3
    /\ clStage = "done" =>
          /\ Len(clOut) = 3 * (Len(clVerts) - 2)
          /\ \A i \in 1 .. (Len(clVerts) - 2) :
                /\ clOut[3 * i - 2] = clVerts[1]
                /\ clOut[3 * i - 1] = clVerts[i + 1]
                /\ clOut[3 * i] = clVerts[i + 2]

\* |a - b| is at most 4 units in the last place of the larger of |p|, |q|.
F32Near(a, b, p, q) ==
    IF p.m = 0 /\ q.m = 0 THEN a.m = 0 /\ b.m = 0
    ELSE ~F32MagLt(F32(0, 8388608, (IF F32MagLt(p, q) THEN q.e ELSE p.e) - 21),
                   F32Sub(a, b))

\* (1-t)*V0 + t*V1 in one channel
Blend(t, p, q) == F32Add(F32Mul(F32Sub(F32One, t), p), F32Mul(t, q))

\* The edges of the last pass's input whose endpoints lie on opposite sides.
CrossedEdges ==
    {i \in 1 .. Len(clLast.before) :
        Inside(clLast.plane, clLast.before[i], PlaneBound(clLast.plane, clIn.W, clIn.H))
        # Inside(clLast.plane, clLast.before[(i % Len(clLast.before)) + 1],
                 PlaneBound(clLast.plane, clIn.W, clIn.H))}

InsideVertices ==
    {i \in 1 .. Len(clLast.before) :
        Inside(clLast.plane, clLast.before[i], PlaneBound(clLast.plane, clIn.W, clIn.H))}

\* C14: in every clip pass each edge whose endpoints lie on opposite sides
\* of the plane yields exactly one new vertex, which in every channel is
\* the blend (1-t)*V0 + t*V1 with one crossing parameter t for the edge (to
\* the rounding of the float operations); a triangle with one vertex behind
\* the near plane becomes a 4-vertex polygon, and t = 0.5 when the edge runs
\* from z = -a to z = +a.
C14_ClipIsLinear ==
    (clLast.plane # "none" /\ clStage # "overrun") =>
        /\ Len(clLast.crossings) = Cardinality(CrossedEdges)
        /\ Len(clVerts) = Cardinality(InsideVertices) + Cardinality(CrossedEdges)
        /\ \A k \in 1 .. Len(clLast.crossings) :
              LET c == clLast.crossings[k]
              IN  /\ F32Near(c.v.x, Blend(c.t, c.p0.x, c.p1.x), c.p0.x, c.p1.x)
                  /\ F32Near(c.v.y, Blend(c.t, c.p0.y, c.p1.y), c.p0.y, c.p1.y)
                  /\ F32Near(c.v.z, Blend(c.t, c.p0.z, c.p1.z), c.p0.z, c.p1.z)
                  /\ F32Near(c.v.w, Blend(c.t, c.p0.w, c.p1.w), c.p0.w, c.p1.w)
                  /\ F32Near(c.v.u, Blend(c.t, c.p0.u, c.p1.u), c.p0.u, c.p1.u)
                  /\ (clLast.plane = "near" /\ c.p0.z = F32Neg(c.p1.z)) => c.t = F32Half
        /\ (clLast.plane = "near" /\ Cardinality(InsideVertices) = 2) =>
              (Len(clVerts) = 4 /\ Len(clLast.crossings) = 2)

\* The near pass cut a triangle with one vertex at z = -1 behind the plane
\* and two at z = +1: two new vertices at t = 0.5, whose attribute lies
\* midway between those of the edge's endpoints.
C14_Witness ==
    /\ clLast.plane = "near" /\ Len(clVerts) = 4 /\ Len(clLast.crossings) = 2
    /\ \A k \in 1 .. 2 :
          /\ clLast.crossings[k].t = F32Half
          /\ clLast.crossings[k].p0.u # clLast.crossings[k].p1.u
          /\ clLast.crossings[k].v.u
                = F32Mul(F32Half, F32Add(clLast.crossings[k].p0.u, clLast.crossings[k].p1.u))

(***************************************************************************)
(* Claims about the camera.                                                *)
(***************************************************************************)

\* The sphere's signed distance to plane p of the frustum is less than
\* -radius.
BehindPlane(p) ==
    F32Lt(PlaneDistance(csFrustum[p], csBounds.center), F32Neg(csBounds.radius))

\* C15: CanSee returns false if and only if the sphere's signed distance to
\* at least one of the six frustum planes is less than -radius; for a sphere
\* that is not entirely behind some plane it returns true.
C15_CulledIffBehindAPlane ==
    csRet.called =>
        (csRet.value = FALSE <=> \E p \in 1 .. 6 : BehindPlane(p))

\* The matrices and planes of the camera's current parameter values.
CurrentProjection ==
    Project3D(camera.fov, camera.aspect, camera.nearPlane, camera.farPlane)

CurrentVP == Mul(InverseMatrixOf(transform), CurrentProjection)

\* C16: after any interleaving of camera setters, camera-transform setters
\* and getters, what GetProjectionMatrix and GetVPMatrix return and the
\* planes CanSee tests are those of the current parameter values, and so
\* are the transform's matrices; no cached value is returned after an input
\* of it has changed.
C16_NeverStale ==
    /\ camRet.op = "GetProjectionMatrix" => camRet.value = CurrentProjection
    /\ camRet.op = "GetVPMatrix" => camRet.value = CurrentVP
    /\ camRet.op = "CanSee" => camRet.value = FrustumOf(CurrentVP)
    /\ camRet.op = "GetMatrix" => camRet.value = MatrixOf(transform)
    /\ camRet.op = "GetInverseMatrix" => camRet.value = InverseMatrixOf(transform)

\* GetVPMatrix returned a view-projection matrix other than the one cached
\* before the call, which had been computed for other values of both the
\* camera's and the transform's parameters.
C16_Witness ==
    /\ camRet.op = "GetVPMatrix"
    /\ camRet.before # Unset
    /\ camRet.before.left # camRet.value.left
    /\ camRet.before.right # camRet.value.right

(***************************************************************************)
(* Claims about Draw's lists and the shader arena.                         *)
(***************************************************************************)

\* C17: when the workers run there are as many snapshots in the arena as
\* draw calls, the i-th draw call references the i-th snapshot, and what
\* the workers read through it is the shader state prepared for the draw
\* call's own object, of that object's shader type; the workers leave the
\* snapshots as they are.
C17_SnapshotPerDrawCall ==
    lpc \in {"run", "clear"} =>
        /\ Len(shaders.elems) = Len(drawCalls.calls)
        /\ \A i \in 1 .. Len(drawCalls.calls) :
              /\ drawCalls.calls[i].shader = PolyAt(shaders, i)
              /\ Deref(shaders, drawCalls.calls[i].shader)
                    = [type |-> lScene[drawCalls.calls[i].obj].shader,
                       state |-> [preparedFor |-> drawCalls.calls[i].obj]]
              /\ lpc = "clear" => lRead[i] = Deref(shaders, drawCalls.calls[i].shader)

\* The workers ran on the two draw calls of a scene whose first object is
\* visible and has no vertices and whose other two objects share one Shader
\* instance, the arena having reallocated when the second snapshot was added.
C17_Witness ==
    /\ lpc = "clear" /\ Len(lScene) = 3 /\ Len(drawCalls.calls) = 2
    /\ lScene[1].visible /\ lScene[1].verts = 0
    /\ drawCalls.calls[1].obj = 2 /\ drawCalls.calls[2].obj = 3
    /\ lScene[2].shader = lScene[3].shader
    /\ lRead[1].state # lRead[2].state
    /\ shaders.block = 2 /\ lFrame = 1

\* C18: when Draw returns, the draw-call list, the clipped-vertex list, the
\* transformed-vertex list and the shader arena have length 0 and the
\* storage they had before the clear; capacities never shrink from frame to
\* frame, and a Draw of the scene of the previous Draw reallocates nothing.
C18_ClearedListsKeepStorage ==
    /\ (lpc = "returned" /\ lFrame >= 1) =>
          /\ drawCalls.size = 0 /\ drawCalls.calls = <<>>
          /\ cverts.size = 0 /\ xverts.size = 0 /\ shaders.elems = <<>>
          /\ Caps = lBefore.atClear
          /\ Caps.xverts >= lBefore.caps.xverts /\ Caps.cverts >= lBefore.caps.cverts
          /\ Caps.drawCalls >= lBefore.caps.drawCalls
          /\ Caps.shaders >= lBefore.caps.shaders
    /\ (lpc \notin {"returned", "off"} /\ lBefore.sameScene) => Caps = lBefore.caps

\* The second Draw of an unchanged scene of two draw calls has returned, and
\* the lists have kept the storage the first Draw allocated.
C18_Witness ==
    /\ lpc = "returned" /\ lFrame = 2 /\ lBefore.sameScene
    /\ Len(lScene) = 2 /\ shaders.cap >= 64 /\ cverts.cap >= 6
    /\ Caps = lBefore.caps

(***************************************************************************)
(* Claims about the resolve passes.                                        *)
(***************************************************************************)

\* The AA-buffer offsets of the samples of output pixel <<X, Y>>: where the
\* rasterizer stores the render pixels of its block, or its MSAA samples.
OwnSamples(X, Y) ==
    IF aaMode = "MSAA_4X" THEN {MSAAOffset(X, Y, i) : i \in 0 .. 3}
    ELSE LET N == IF aaMode = "SSAA_2X" THEN 2 ELSE 4
         IN  {PixelOffset("aa", N * X + dx, N * Y + dy) : dx, dy \in 0 .. (N - 1)}

RECURSIVE SumAA(_)
SumAA(offsets) ==
    IF offsets = {} THEN 0
    ELSE LET o == CHOOSE o \in offsets : TRUE IN fAA[o] + SumAA(offsets \ {o})

\* C19: in SSAA 2x, SSAA 4x and MSAA 4x, for every number of workers and
\* every output size, after Draw every output pixel holds the average of
\* its own AA samples (to the rounding of the averaging instructions), and
\* the resolve passes together have written every output pixel exactly once.
C19_ResolveAveragesOwnSamples ==
    (fMain = "done" /\ ResolveFn(aaMode, rasterMode) # "none") =>
        \A X \in 0 .. (cWidth - 1), Y \in 0 .. (cHeight - 1) :
            /\ Cardinality({w \in FWorkers : <<"color", Y * cWidth + X>> \in fWrote[w]}) = 1
            /\ Cardinality(OwnSamples(X, Y)) * fColor[Y * cWidth + X] - SumAA(OwnSamples(X, Y))
                  \in (-Cardinality(OwnSamples(X, Y))) .. Cardinality(OwnSamples(X, Y))

RECURSIVE BlockSum(_, _)
BlockSum(block, n) == IF n = 0 THEN 0 ELSE block[n - 1] + BlockSum(block, n - 1)

\* C24: in each resolve pass a channel of the output pixel differs from the
\* arithmetic mean of the channel over the pixel's samples by at most 1/2,
\* and a block of identical samples resolves to that value.
C24_ResolveIsRoundedMean ==
    rsOut # Unset =>
        LET n == SamplesOf(rsMode)
        IN  /\ 2 * Abs(n * rsOut.value - BlockSum(rsBlock, n)) <= n
            /\ (\A o \in 0 .. (n - 1) : rsBlock[o] = rsBlock[0]) => rsOut.value = rsBlock[0]

(***************************************************************************)
(* Claims about textures.                                                  *)
(***************************************************************************)

\* floor(log2(n)) for n >= 1
FloorLog2(n) == CHOOSE k \in 0 .. n : Pow2(k) <= n /\ n < Pow2(k + 1)

LargerSide == IF mipSize[1] > mipSize[2] THEN mipSize[1] ELSE mipSize[2]

RECURSIVE LevelPixels(_)
LevelPixels(k) ==
    IF k = 0 THEN 0 ELSE LevelPixels(k - 1) + mipmaps[k].width * mipmaps[k].height

\* C20: for a texture of w >= 1 by h >= 1 pixels the construction of the mip
\* chain ends with 1 + floor(log2(max(w, h))) levels: level 0 is w x h,
\* each further level is max(1, floor(w_k / 2)) x max(1, floor(h_k / 2)),
\* the last is 1 x 1, and level k starts at the element offset that is the
\* sum of the sizes of the levels before it, in one allocation of the sum of
\* all sizes.
C20_MipChain ==
    /\ mipStage = "levels" => Len(mipmaps) <= FloorLog2(LargerSide)
    /\ mipStage \in {"alloc", "assign", "done"} =>
          /\ Len(mipmaps) = 1 + FloorLog2(LargerSide)
          /\ mipmaps[1].width = mipSize[1] /\ mipmaps[1].height = mipSize[2]
          /\ \A k \in 2 .. Len(mipmaps) :
                /\ mipmaps[k].width
                      = (IF mipmaps[k - 1].width \div 2 > 1 THEN mipmaps[k - 1].width \div 2
                         ELSE 1)
                /\ mipmaps[k].height
                      = (IF mipmaps[k - 1].height \div 2 > 1 THEN mipmaps[k - 1].height \div 2
                         ELSE 1)
          /\ mipmaps[Len(mipmaps)].width = 1 /\ mipmaps[Len(mipmaps)].height = 1
    /\ mipStage = "done" =>
          /\ mipAlloc = LevelPixels(Len(mipmaps))
          /\ \A k \in 1 .. Len(mipmaps) : mipmaps[k].pixels = LevelPixels(k - 1)

\* The chain of a 5 x 3 texture is built: 5 x 3, 2 x 1, 1 x 1, at offsets
\* 0, 15 and 17 of 18 elements.
C20_Witness ==
    /\ mipStage = "done" /\ mipSize = <<5, 3>>
    /\ Len(mipmaps) = 3 /\ mipAlloc = 18
    /\ mipmaps[2] = [pixels |-> 15, width |-> 2, height |-> 1]
    /\ mipmaps[3] = [pixels |-> 17, width |-> 1, height |-> 1]

(***************************************************************************)
(* Claims about the sample offsets.                                        *)
(***************************************************************************)

\* The offset of render coordinate (x, y): the X * X samples of an output
\* pixel are contiguous, row by row.
TileLocal(b, x, y) ==
    ((y \div b.X) * b.width + (x \div b.X)) * b.X * b.X + (y % b.X) * b.X + (x % b.X)

\* C21: for X in {2, 4}, every buffer size and every render coordinate
\* (x, y), the row offset plus the column offset and GetSuperSampleOffset
\* both are ((y div X) * width + x div X) * X * X + (y mod X) * X + x mod X,
\* an offset below width * height * X * X, and two different coordinates
\* never get the same offset.
C21_OffsetsAreTileLocal ==
    /\ ofsLoop # Unset => ofsLoop.offset = TileLocal(ofsBuf, ofsLoop.x, ofsLoop.y)
    /\ ofsFull # Unset =>
          /\ ofsFull.offset = TileLocal(ofsBuf, ofsFull.x, ofsFull.y)
          /\ ofsFull.offset \in
                0 .. (ofsBuf.width * ofsBuf.height * ofsBuf.X * ofsBuf.X - 1)
    /\ (ofsLoop # Unset /\ ofsFull # Unset) =>
          (ofsLoop.offset = ofsFull.offset
              <=> (ofsLoop.x = ofsFull.x /\ ofsLoop.y = ofsFull.y))

(***************************************************************************)
(* Claims about attribute interpolation.                                   *)
(***************************************************************************)

\* Twice the area weights of the center of pixel (x, y) in the triangle p of
\* whole-pixel corners, times two: l_i = BaryWeights[i] / their sum.
BaryWeights(p, x, y) ==
    LET qx == 2 * x + 1 - 2 * p[1][1]
        qy == 2 * y + 1 - 2 * p[1][2]
        e1x == p[2][1] - p[1][1]
        e1y == p[2][2] - p[1][2]
        e2x == p[3][1] - p[1][1]
        e2y == p[3][2] - p[1][2]
        det == e1x * e2y - e2x * e1y
        l2 == qx * e2y - e2x * qy
        l3 == e1x * qy - qx * e1y
        sg == IF det < 0 THEN -1 ELSE 1
    IN  <<sg * (2 * det - l2 - l3), sg * l2, sg * l3>>

\* The center of the pixel is inside the triangle, on no edge.
InteriorPixel(p, x, y) == \A i \in 1 .. 3 : BaryWeights(p, x, y)[i] > 0

\* (sum of l_i * A_i / w_i) / (sum of l_i / w_i) as the fraction num / den of
\* whole numbers: both sums times w_1 * w_2 * w_3 and the sum of the weights.
ExactAttr(in, l) ==
    [num |-> l[1] * in.a[1] * in.w[2] * in.w[3] + l[2] * in.a[2] * in.w[1] * in.w[3]
                + l[3] * in.a[3] * in.w[1] * in.w[2],
     den |-> l[1] * in.w[2] * in.w[3] + l[2] * in.w[1] * in.w[3]
                + l[3] * in.w[1] * in.w[2]]

\* num / den > 0 in quarters of its ulp: the whole quarters T (26 bits), the
\* exponent of a quarter, and whether a fraction of a quarter is left.
UlpQuarters(num, den) ==
    LET ka == 24 - BitLen(num)
        kb == 24 - BitLen(den)
        qr == DivBits((num * Pow2(ka)) \div (den * Pow2(kb)),
                      (num * Pow2(ka)) % (den * Pow2(kb)), den * Pow2(kb), 26)
    IN  IF qr[1] >= 67108864
           THEN [T |-> qr[1] \div 2, e |-> kb - ka - 25,
                 more |-> qr[1] % 2 = 1 \/ qr[2] # 0]
           ELSE [T |-> qr[1], e |-> kb - ka - 26, more |-> qr[2] # 0]

\* The float f is within one ulp of num / den (num >= 0, den > 0), the ulp
\* being that of the exact value.
WithinOneUlp(f, num, den) ==
    IF num = 0 THEN f.m = 0
    ELSE LET u == UlpQuarters(num, den)
             d == f.e - u.e
         IN  /\ f.s = 0 /\ f.m > 0
             /\ d \in 0 .. 4
             /\ f.m * Pow2(d) <= u.T + 4
             /\ f.m * Pow2(d) >= u.T - 4 + (IF u.more THEN 1 ELSE 0)

\* C22: at every interior pixel the attribute handed to the fragment stage
\* is within 1 ulp of (sum of l_i * A_i / w_i) / (sum of l_i / w_i), l the
\* screen-space barycentric weights of the pixel center.
C22_PerspectiveCorrectWithinUlp ==
    (ipFrag # Unset /\ InteriorPixel(ScreenOf(ipTri), ipFrag.x, ipFrag.y)) =>
        LET e == ExactAttr(ipIn, BaryWeights(ScreenOf(ipTri), ipFrag.x, ipFrag.y))
        IN  WithinOneUlp(ipFrag.frag.u, e.num, e.den)

(***************************************************************************)
(* Claims about the MSAA rasterizer.                                       *)
(***************************************************************************)

\* coverage AND depth-test mask of pixel x for the triangle of the row, on
\* the depth samples the pixel had when the triangle began.
RowFill(x) ==
    {i \in mrTri.coverage[x] : mrTri.w > mrBefore.depth[x][i]}

\* C23: when RasterizeHalfSpaceMSAA has finished a row for a triangle, the
\* fragment stage ran at most once for each pixel, and ran iff coverage AND
\* depth-test mask of the pixel is non-zero, wherever the pixel is in the
\* row; sample i holds the triangle's color and depth iff both its bits are
\* set and the fragment was not discarded, and is as it was otherwise.
C23_MsaaShadesOncePerPixel ==
    (mrStage = "idle" /\ mrTri # Unset) =>
        \A x \in RowPixels :
            /\ mrShaded[x] <= 1
            /\ mrShaded[x] = 1 <=> RowFill(x) # {}
            /\ \A i \in 1 .. SAMPLE_COUNT :
                  IF i \in RowFill(x) /\ ~mrDiscard[x]
                     THEN mrColor[x][i] = mrTri.color /\ mrDepth[x][i] = mrTri.w
                     ELSE /\ mrColor[x][i] = mrBefore.color[x][i]
                          /\ mrDepth[x][i] = mrBefore.depth[x][i]

\* The row of a triangle is finished: its coverage has a gap in the middle,
\* the pixel right of the gap was shaded, at the first pixel the depth test
\* against an earlier triangle left fewer samples than were covered, and
\* the fragment of the last pixel was discarded.
C23_Witness ==
    /\ mrStage = "idle" /\ mrTri # Unset
    /\ mrTri.coverage[0] # {} /\ mrTri.coverage[1] = {} /\ mrTri.coverage[2] # {}
    /\ mrShaded[0] = 1 /\ mrShaded[2] = 1
    /\ RowFill(0) # mrTri.coverage[0]
    /\ mrDiscard[2]

(***************************************************************************)
(* Claims about texture fetches.                                           *)
(***************************************************************************)

SumSeq4(s) == s[1] + s[2] + s[3] + s[4]

\* The weight the fetch gave to the texel at index a.
WeightOn(out, a) ==
    LET hit(i) == IF out.taps[i] = a THEN out.weights[i] ELSE 0
    IN  IF Len(out.taps) = 1 THEN hit(1) ELSE hit(1) + hit(2) + hit(3) + hit(4)

Outside(c8) == c8 < 0 \/ c8 > 8

\* The texel of the level nearest to a coordinate outside the texture.
EdgeTexel(mm, u8, v8) ==
    mm.pixels + (IF v8 < 0 THEN 0 ELSE mm.height - 1) * mm.width
              + (IF u8 < 0 THEN 0 ELSE mm.width - 1)

\* C25: for every UV and every level CalcMipLevel produces, the level read is
\* one of the texture's levels, every texel read lies inside that level, the
\* weights of a bilinear fetch lie in [0, 1] and sum to 1, and a UV outside
\* the texture on both axes yields exactly the nearest edge texel.
C25_FetchesClampAtEdges ==
    tsOut # Unset =>
        LET mips == MipChain(tsTex[1], tsTex[2], 0)
        IN  /\ tsOut.level \in 0 .. (Len(mips) - 1)
            /\ LET mm == mips[tsOut.level + 1]
               IN  /\ \A i \in 1 .. Len(tsOut.taps) :
                          /\ tsOut.taps[i] >= mm.pixels
                          /\ tsOut.taps[i] < mm.pixels + mm.width * mm.height
                   /\ tsCall.filter = "Bilinear" =>
                          /\ \A i \in 1 .. 4 : tsOut.weights[i] \in 0 .. 64
                          /\ SumSeq4(tsOut.weights) = 64
                   /\ (Outside(tsCall.u8) /\ Outside(tsCall.v8)) =>
                          \A a \in mm.pixels .. (mm.pixels + mm.width * mm.height - 1) :
                              WeightOn(tsOut, a)
                                  = (IF a = EdgeTexel(mm, tsCall.u8, tsCall.v8) THEN 64 ELSE 0)

(***************************************************************************)
(* Claims about triangles the rasterizers drop.                            *)
(***************************************************************************)

\* The three vertices lie on one line.
ZeroArea(p) ==
    (p[2][1] - p[1][1]) * (p[3][2] - p[1][2]) = (p[3][1] - p[1][1]) * (p[2][2] - p[1][2])

\* The bounding box of the triangle has no pixel in common with the strip.
StripMisses(rect, p) ==
    \/ Max3(p[1][2], p[2][2], p[3][2]) <= rect.y
    \/ Min3(p[1][2], p[2][2], p[3][2]) >= rect.y + rect.h
    \/ Max3(p[1][1], p[2][1], p[3][1]) <= rect.x
    \/ Min3(p[1][1], p[2][1], p[3][1]) >= rect.x + rect.w

\* Worker w is about to rasterize a triangle that is degenerate or misses
\* its strip.
AtDropped(w) ==
    /\ fpc[w].phase = "rasterize"
    /\ \/ ZeroArea(fScene[fpc[w].k].p)
       \/ StripMisses(FStrip(w), fScene[fpc[w].k].p)

\* C26: in every rasterization mode, rasterizing a triangle that is
\* degenerate or misses the worker's strip writes no buffer, generates no
\* fragment and raises no fault, and the worker goes on to the next triangle
\* of the list (or to the resolve pass after the last).
C26_DroppedTrianglesAreSilent ==
    [][\A w \in FWorkers :
          (AtDropped(w) /\ fpc'[w] # fpc[w]) =>
              /\ fColor' = fColor /\ fDepth' = fDepth /\ fAA' = fAA
              /\ fFrags' = fFrags /\ fWrote'[w] = fWrote[w]
              /\ ~fFault'
              /\ fpc'[w] = (IF fpc[w].k < Len(fScene)
                               THEN [phase |-> "rasterize", k |-> fpc[w].k + 1]
                               ELSE [phase |-> "resolve", k |-> fpc[w].k])]_vars

\* A scanline worker is past a degenerate first triangle and has written the
\* fragments of the triangle that follows it.
C26_Witness ==
    /\ rasterMode = "Scanline" /\ ~fFault
    /\ Len(fScene) = 2 /\ ZeroArea(fScene[1].p)
    /\ \E w \in FWorkers : fpc[w].phase = "resolve" /\ fWrote[w] # {}

(***************************************************************************)
(* Claims about the buffers after the mode setters.                        *)
(***************************************************************************)

\* The samples the rasterizer selected by the mode pair addresses in the
\* depth buffer and in its output buffer.
SamplesAddressed ==
    cRenderW * cRenderH
        * (IF RasterFn(rasterMode, aaMode) = "RasterizeHalfSpaceMSAA" THEN 4 ELSE 1)

\* No allocation of the calls so far was refused.
AllAllocated == \A b \in {colorBuf, depthBuf, aaBuf} : b.data # "invalid"

\* The AA buffer is cleared, written or resolved under the mode pair.
UsesAABuffer ==
    \/ ClearTarget(aaMode, rasterMode) = "aa"
    \/ RasterTarget(rasterMode, aaMode) = "aa"
    \/ ResolveFn(aaMode, rasterMode) # "none"

\* C27: after any sequence of rasterizationMode and antiAliasingMode calls
\* (none of whose allocations failed) the color buffer holds width*height
\* elements, and the depth buffer, and the AA buffer whenever the selected
\* Clear, rasterizer or resolve pass uses it, hold at least the samples the
\* selected rasterizer addresses (renderWidth*renderHeight, times 4 on the
\* half-space MSAA path), so that no access falls outside its buffer.
C27_BuffersMatchModes ==
    (~crashed /\ AllAllocated) =>
        /\ BufferSize(colorBuf) = cWidth * cHeight
        /\ BufferSize(depthBuf) >= SamplesAddressed
        /\ UsesAABuffer => BufferSize(aaBuf) >= SamplesAddressed

(***************************************************************************)
(* Claims about the mailbox of a RenderThread.                             *)
(***************************************************************************)

RECURSIVE AcceptedBy(_, _)
\* The rects of the tasks Execute accepted for worker w, in order.
AcceptedBy(w, acc) ==
    IF acc = <<>> THEN <<>>
    ELSE (IF Head(acc)[1] = w THEN <<Head(acc)[2]>> ELSE <<>>) \o AcceptedBy(w, Tail(acc))

\* The task swapped out of the mailbox that Run has not started yet.
TakenBy(w) == IF wpc[w] = "rasterize" THEN <<wtask[w].rect>> ELSE <<>>

\* The task waiting in the mailbox.
PendingFor(w) == IF mailbox[w].context THEN <<mailbox[w].rect>> ELSE <<>>

\* Every accepted task was started once, in order, or is about to be.
MailAccounted ==
    \A w \in Workers :
        AcceptedBy(w, posted) = mlRan[w] \o TakenBy(w) \o PendingFor(w)

\* _busy is set while a task is pending, taken or running.
BusyWhileHeld ==
    \A w \in Workers :
        (mailbox[w].context \/ wtask[w].context \/ wpc[w] \in {"rasterize", "resolve"})
            => busy[w]

\* An Execute on a busy worker changes nothing of the worker.
BusyExecuteIsNoOp ==
    (mlCalls' # mlCalls /\ busy[mlWho']) =>
        /\ mailbox' = mailbox /\ wtask' = wtask /\ busy' = busy
        /\ posted' = posted /\ wpc' = wpc

\* _busy is cleared only by the worker, with its tasks done and the mailbox
\* found empty under the lock.
BusyClearedWhenDone ==
    \A w \in Workers :
        (busy[w] /\ ~busy'[w]) =>
            /\ wpc[w] = "lock" /\ ~mailbox[w].context
            /\ AcceptedBy(w, posted) = mlRan[w]
            /\ wpc[w] # "resolve"

\* C28: an Execute while _busy is set changes neither the pending nor the
\* running task nor _busy; every accepted task is started exactly once by
\* its worker, in the order accepted; _busy stays set from the acceptance
\* of a task until the worker, done with it, finds the mailbox empty; and
\* every accepted task is run in the end.
C28_MailboxHoldsOneTask ==
    /\ [](MailAccounted /\ BusyWhileHeld)
    /\ [][BusyExecuteIsNoOp /\ BusyClearedWhenDone]_vars
    /\ <>[](\A w \in Workers : AcceptedBy(w, posted) = mlRan[w] /\ ~mailbox[w].context)

\* One Execute of three was refused on a busy worker, and the worker has run
\* the two tasks it accepted and cleared _busy.
C28_Witness ==
    /\ mlCalls = MaxExecutes
    /\ \E w \in Workers :
          /\ Len(mlRan[w]) = 2 /\ Len(posted) = 2
          /\ AcceptedBy(w, posted) = mlRan[w]
          /\ ~busy[w]

(***************************************************************************)
(* Claims about MipDown.                                                   *)
(***************************************************************************)

\* The truncated average of the texels of level lv that texel (x, y) of the
\* next level covers.
CoveredAverage(lv, x, y) ==
    LET w == lv.width
        p == lv.pixels
    IN  IF lv.width > 1 /\ lv.height > 1
           THEN (p[(2 * y) * w + 2 * x] + p[(2 * y) * w + 2 * x + 1]
                 + p[(2 * y + 1) * w + 2 * x] + p[(2 * y + 1) * w + 2 * x + 1]) \div 4
        ELSE IF lv.width > 1 THEN (p[2 * x] + p[2 * x + 1]) \div 2
        ELSE (p[2 * y] + p[2 * y + 1]) \div 2

\* C29: for every texture size, each texel (x, y) of level k+1 is the
\* truncated average of the level-k texels it covers (a 2x2 block, or a pair
\* when one side of level k is 1) and sits at index y * width + x of its
\* level, and MipDown never reads a texel it has already overwritten.
C29_MipDownAverages ==
    /\ ~mdStale
    /\ \A k \in 1 .. (Len(mdLevels) - 1) :
          LET lo == mdLevels[k]
              hi == mdLevels[k + 1]
          IN  \A x \in 0 .. (hi.width - 1), y \in 0 .. (hi.height - 1) :
                  hi.pixels[y * hi.width + x] = CoveredAverage(lo, x, y)

(***************************************************************************)
(* Claims about aligned allocation.                                        *)
(***************************************************************************)

\* C30: for every size, power-of-two alignment and malloc address, the
\* pointer AlignedAlloc returns is a multiple of the alignment, the
\* pointer-sized slot before it and the size bytes from it on lie inside
\* the malloc'ed block, and AlignedFree frees the block's address.
C30_AlignedBlockInsideMalloc ==
    amBlock # 0 =>
        /\ amPtr % amAlign = 0
        /\ amPtr - amWord >= amMem
        /\ amSlot = [at |-> amPtr - amWord, value |-> amMem]
        /\ \A i \in 0 .. (amSize - 1) : amPtr + i < amMem + amBlock
        /\ amFreed \in {0, amMem}

====
